---- MODULE Spec2Model ----
(***************************************************************************)
(* Adaptive user-context engine of CuantoCuestaBackend.                     *)
(*                                                                         *)
(*   SpecAnchor  the persisted ContextualAnchor                            *)
(*               (app/models/contextual_anchor.py): update_value,          *)
(*               apply_temporal_decay, detect_drift                        *)
(*   SpecCusum   one DriftDetector, cusum_test called directly             *)
(*   Spec        process_user_interaction calls running concurrently on    *)
(*               one ConversationService                                   *)
(*               (app/services/conversation_service.py): each call is a    *)
(*               sequence of steps separated by the awaits on the          *)
(*               database; the tables are usuarios, contextual_anchors,    *)
(*               user_interactions and context_changes                     *)
(*   SpecStoreFailure   Spec, with the database failing before a store     *)
(*   SpecHistory        update_history and drift_alerts of an aged anchor  *)
(*   SpecVerdict        _update_user_context for each drift verdict        *)
(*   SpecSeasonal       distinguish_seasonal_vs_drift                      *)
(*   SpecMovingAverage  one WeightedMovingAverage and the wall clock       *)
(*   SpecRegion         LocationHasher._generate_region_code               *)
(*   SpecHash           LocationHasher.create_location_hash                *)
(*   SpecSummary        the context summary of a first interaction         *)
(*   SpecCache          _update_anonymous_cache calls running concurrently *)
(*                      on the anonymous_cache table                       *)
(*   SpecOptimize       POST /api/optimize (routers/gpt_router.py)         *)
(*   SpecDeviation      _calculate_anchor_deviation, patrones_temporales   *)
(*   SpecPattern        SeasonalAnalyzer._is_pattern_active                *)
(*   SpecPageHinkley    DriftDetector.page_hinkley_test                    *)
(*                                                                         *)
(* Real numbers are fixed-point integers: Scale units are 1.0 and every    *)
(* division rounds down.  The CUSUM accumulators use CusumUnit units per   *)
(* 1.0 so that the mean of up to ten ordinal decisions is exact.           *)
(***************************************************************************)
EXTENDS Integers, Sequences, FiniteSets, TLC

VARIABLES
    anchor,     \* the persisted ContextualAnchor row under test
    ret,        \* value returned by the last anchor operation
    last_op,    \* the last anchor operation and its arguments
    calls       \* number of calls made so far, per anchor operation

VARIABLES
    drift_detector, \* DriftDetector: cusum_positive, cusum_negative
    cusum_call,     \* arguments and result of the last direct cusum_test call
    cusum_count     \* number of direct cusum_test calls made so far

VARIABLES
    components,         \* TRUE once the service holds its detector, analyzer and anchor configuration
    closes,             \* number of close_session calls made so far
    usuarios,           \* table usuarios: the user ids that have a row
    contextual_anchors, \* table contextual_anchors: user -> anchor name -> row
    user_interactions,  \* table user_interactions: user -> rows in insertion order
    context_changes,    \* table context_changes: user -> logged drift types
    task,               \* the process_user_interaction calls: position and locals
    own_cusum           \* per user: the accumulators fed by that user's interactions only

VARIABLES
    update_log,     \* every value passed to update_value so far, in call order
    alert_log       \* every new_value for which detect_drift reported a drift, in call order

VARIABLES
    moving_average, \* a WeightedMovingAverage: window_size, alpha, data_points
    wall_clock,     \* the wall clock read by _calculate_age_weight, in weeks
    average,        \* value returned by the last update of moving_average
    updates         \* number of update calls made on moving_average so far

VARIABLES
    anonymous_cache,    \* table anonymous_cache: query_hash -> row (query_hash is unique)
    cache_task,         \* the calls that have reached _update_anonymous_cache: position and locals
    today,              \* the date, in days
    cached              \* per query_hash: interactions handed to the cache so far, and the day of the last

VARIABLES
    probe           \* a function applied on its own: its arguments and, once called, its result

anchor_vars == <<anchor, ret, last_op, calls>>
history_vars == <<update_log, alert_log>>
cusum_vars == <<cusum_call, cusum_count>>
service_vars == <<components, closes, usuarios, contextual_anchors,
                  user_interactions, context_changes, task, own_cusum>>
\* the variables none of SpecAnchor, SpecCusum and Spec changes
wma_vars == <<moving_average, wall_clock, average, updates>>
cache_vars == <<anonymous_cache, cache_task, today, cached>>
extra_vars == <<history_vars, probe, wma_vars, cache_vars>>
vars == <<anchor, ret, last_op, calls, drift_detector, cusum_call, cusum_count,
          components, closes, usuarios, contextual_anchors, user_interactions,
          context_changes, task, own_cusum, extra_vars>>

----------------------------------------------------------------------------
(* Bounds of the model *)

MaxUpdates == 3         \* update_value calls per run
MaxDecays == 2          \* apply_temporal_decay calls per run
MaxDetects == 1         \* detect_drift calls per run
MaxDays == 30           \* largest days_since_update
MaxCusumCalls == 3      \* direct cusum_test calls per run
MaxCalls == 2           \* process_user_interaction calls per run
MaxCloses == 1          \* close_session calls per run
MaxHistoryCalls == 4    \* update_value and detect_drift calls per run of SpecHistory
MaxPercent == 100       \* behaviour metrics range over 0.00 .. MaxPercent / 100
MaxWindow == 3          \* largest window_size of a WeightedMovingAverage
MaxWeeks == 2           \* weeks the wall clock advances
MaxAverageUpdates == 3  \* WeightedMovingAverage.update calls per run
MaxGrid == 20           \* tenths of a degree the region grid spans in each direction
MaxSteps == 10          \* latitudes, 0.002 degrees apart, given to create_location_hash
MaxCacheCalls == 3      \* calls that reach _update_anonymous_cache per run
MaxCacheDays == 1       \* days that pass during a run of SpecCache
MaxProducts == 3        \* products of one request to POST /api/optimize
MaxStream == 4          \* values of one data_stream given to page_hinkley_test

----------------------------------------------------------------------------
(* Arithmetic helpers *)

Scale == 10 * 100       \* fixed-point units per 1.0
FactorScale == 100 * Scale  \* units per 1.0 of a decay factor
CusumUnit == 8 * 9 * 5 * 7  \* CUSUM units per 1.0: the mean of 1..10 ordinals is exact

Min(a, b) == IF a <= b THEN a ELSE b
Max(a, b) == IF a >= b THEN a ELSE b
Abs(a) == IF a >= 0 THEN a ELSE -a

RECURSIVE SumOver(_, _)
SumOver(f, S) ==
    IF S = {} THEN 0
    ELSE LET k == CHOOSE k \in S : TRUE IN f[k] + SumOver(f, S \ {k})

Range(s) == {s[i] : i \in 1..Len(s)}

\* Python s[-n:]
LastN(s, n) == IF Len(s) <= n THEN s ELSE SubSeq(s, Len(s) - n + 1, Len(s))

----------------------------------------------------------------------------
(* Polymorphic anchor values (JSONB): number | mapping | list *)

NoKeys == [k \in {} |-> 0]
Num(n) == [t |-> "num", n |-> n, d |-> NoKeys, l |-> <<>>]
Dict(d) == [t |-> "dict", n |-> 0, d |-> d, l |-> <<>>]
List(l) == [t |-> "list", n |-> 0, d |-> NoKeys, l |-> l]

\* Python truthiness of a value: `if not self.anchor_value`
Truthy(v) ==
    CASE v.t = "num" -> v.n # 0
      [] v.t = "dict" -> DOMAIN v.d # {}
      [] v.t = "list" -> Len(v.l) > 0

----------------------------------------------------------------------------
(* ContextualAnchor, app/models/contextual_anchor.py *)

\* validate_anchor_name: the names the persisted model accepts
valid_names ==
    {"ubicacion_hogar", "ubicacion_trabajo", "ubicacion_frecuente",
     "preferencias_precio", "preferencias_marca", "preferencias_categoria",
     "patrones_horarios", "patrones_frecuencia", "patrones_estacionales",
     "supermercados_preferidos", "productos_frecuentes", "presupuesto_promedio",
     "sensibilidad_distancia", "tolerancia_tiempo", "optimizacion_preferida"}

\* validate_anchor_name: TRUE when the name is returned, FALSE when ValueError is raised
validate_anchor_name(anchor_name) == anchor_name \in valid_names

\* create_default_anchors_for_user: thresholds of the "supermercados" domain
default_configs ==
    [ubicacion_hogar |-> [weight |-> 1500, threshold |-> 800],
     preferencias_precio |-> [weight |-> 1200, threshold |-> 700],
     supermercados_preferidos |-> [weight |-> 1000, threshold |-> 600],
     productos_frecuentes |-> [weight |-> 800, threshold |-> 500],
     patrones_horarios |-> [weight |-> 600, threshold |-> 700],
     presupuesto_promedio |-> [weight |-> 1100, threshold |-> 800]]

\* a row as create_default_anchors_for_user inserts it (column defaults)
NewAnchor(name) ==
    [anchor_name |-> name,
     anchor_value |-> Dict(NoKeys),
     confidence_score |-> 0,
     stability_threshold |-> default_configs[name].threshold,
     weight |-> default_configs[name].weight,
     decay_rate |-> 95,             \* 0.95, in hundredths
     learning_rate |-> 100,         \* 0.1
     update_count |-> 1,
     is_stable |-> FALSE,
     historical_values |-> <<>>,
     drift_alerts |-> <<>>]

\* variant: the history is never trimmed
add_to_history_unbounded(a, value) ==
    [a EXCEPT !.historical_values =
        Append(a.historical_values,
               [value |-> value, confidence |-> a.confidence_score])]

\* _add_to_history: keep the last 49 entries and append the new one
add_to_history(a, value) ==
    [a EXCEPT !.historical_values =
        Append(LastN(a.historical_values, 49),
               [value |-> value, confidence |-> a.confidence_score])]

\* _add_drift_alert: keep the last 9 alerts and append the new one
add_drift_alert(a, new_value, drift_score) ==
    [a EXCEPT !.drift_alerts =
        Append(LastN(a.drift_alerts, 9),
               [new_value |-> new_value,
                old_value |-> a.anchor_value,
                drift_score |-> drift_score,
                confidence_at_detection |-> a.confidence_score])]

\* the dictionary branch of update_value
blend_dict(old, new, alpha) ==
    [k \in (DOMAIN old) \cup (DOMAIN new) |->
        IF k \in DOMAIN new /\ k \in DOMAIN old
        THEN ((Scale - alpha) * old[k] + alpha * new[k]) \div Scale
        ELSE IF k \in DOMAIN new THEN new[k] ELSE old[k]]

\* variant: one update short of the required five
stability_reached_early(confidence_score, stability_threshold, update_count) ==
    confidence_score >= stability_threshold /\ update_count >= 4

\* the stability check of update_value
stability_reached(confidence_score, stability_threshold, update_count) ==
    confidence_score >= stability_threshold /\ update_count >= 5

\* variant: is_stable recomputed on every update
stable_after_update_recomputed(is_stable, confidence_score, stability_threshold, update_count) ==
    stability_reached(confidence_score, stability_threshold, update_count)

\* is_stable as update_value leaves it: set when reached, else untouched
stable_after_update(is_stable, confidence_score, stability_threshold, update_count) ==
    IF stability_reached(confidence_score, stability_threshold, update_count)
    THEN TRUE ELSE is_stable

\* the first-write confidence of update_value
first_confidence(confidence_boost) == Min(300 + confidence_boost, Scale)

update_value(a, new_value, confidence_boost) ==
    LET first == ~Truthy(a.anchor_value)
        alpha == (a.learning_rate * (Scale + confidence_boost)) \div Scale
        old == a.anchor_value
        value ==
            IF first THEN new_value
            ELSE IF new_value.t = "dict" /\ old.t = "dict"
                 THEN Dict(blend_dict(old.d, new_value.d, alpha))
            ELSE IF new_value.t = "num" /\ old.t = "num"
                 THEN Num(((Scale - alpha) * old.n + alpha * new_value.n) \div Scale)
            ELSE new_value
        confidence_increase == a.learning_rate \div 10 + confidence_boost
        confidence ==
            IF first THEN first_confidence(confidence_boost)
            ELSE Min(a.confidence_score + confidence_increase, Scale)
        count == a.update_count + 1
        a1 == [a EXCEPT !.anchor_value = value,
                        !.confidence_score = confidence,
                        !.update_count = count,
                        !.is_stable =
                            stable_after_update(a.is_stable, confidence,
                                                a.stability_threshold, count)]
    IN add_to_history(a1, new_value)

\* decay_rate ** days_since_update, in FactorScale units per 1.0
RECURSIVE decay_factor(_, _)
decay_factor(decay_rate, days_since_update) ==
    IF days_since_update <= 0 THEN FactorScale
    ELSE (decay_factor(decay_rate, days_since_update - 1) * decay_rate) \div 100

\* the stability check of apply_temporal_decay
below_half_threshold(confidence_score, stability_threshold) ==
    2 * confidence_score < stability_threshold

apply_temporal_decay(a, days_since_update) ==
    IF days_since_update > 0
    THEN LET confidence ==
                 (a.confidence_score * decay_factor(a.decay_rate, days_since_update))
                     \div FactorScale
         IN [a EXCEPT !.confidence_score = confidence,
                      !.is_stable =
                          IF below_half_threshold(confidence, a.stability_threshold)
                          THEN FALSE ELSE a.is_stable]
    ELSE a

\* relative difference of two numbers, as detect_drift and
\* _calculate_dict_drift compute it
relative_diff(new, old) ==
    IF old # 0 THEN (Abs(new - old) * Scale) \div Abs(old)
    ELSE IF new # 0 THEN Scale ELSE 0

calculate_dict_drift(new_dict, old_dict) ==
    LET all_keys == (DOMAIN new_dict) \cup (DOMAIN old_dict)
        diff == [k \in all_keys |->
                    IF k \in DOMAIN new_dict /\ k \in DOMAIN old_dict
                    THEN relative_diff(new_dict[k], old_dict[k])
                    ELSE Scale]
    IN IF all_keys = {} THEN 0
       ELSE SumOver(diff, all_keys) \div Cardinality(all_keys)

calculate_list_drift(new_list, old_list) ==
    IF Len(new_list) = 0 /\ Len(old_list) = 0 THEN 0
    ELSE IF Len(new_list) = 0 \/ Len(old_list) = 0 THEN Scale
    ELSE LET intersection == Cardinality(Range(new_list) \cap Range(old_list))
             union == Cardinality(Range(new_list) \cup Range(old_list))
         IN Scale - (intersection * Scale) \div union

\* variant: the guard requires both conditions
anchor_not_stable_both(a) == ~Truthy(a.anchor_value) /\ ~a.is_stable

\* the guard of detect_drift: nothing to compare against yet
anchor_not_stable(a) == ~Truthy(a.anchor_value) \/ ~a.is_stable

drift_score_of(a, new_value) ==
    LET old == a.anchor_value
    IN IF new_value.t = "dict" /\ old.t = "dict"
       THEN calculate_dict_drift(new_value.d, old.d)
       ELSE IF new_value.t = "num" /\ old.t = "num"
       THEN relative_diff(new_value.n, old.n)
       ELSE IF new_value.t = "list" /\ old.t = "list"
       THEN calculate_list_drift(new_value.l, old.l)
       ELSE IF new_value = old THEN 0 ELSE Scale

\* detect_drift: <<anchor afterwards, returned mapping>>
detect_drift(a, new_value, threshold_multiplier) ==
    IF anchor_not_stable(a)
    THEN <<a, [drift_detected |-> FALSE, reason |-> "anchor_not_stable",
               drift_score |-> 0, threshold_used |-> 0, confidence |-> 0,
               anchor_stability |-> FALSE]>>
    ELSE LET drift_score == drift_score_of(a, new_value)
             adjusted_threshold ==
                 (a.stability_threshold * threshold_multiplier) \div Scale
             drift_detected == drift_score > adjusted_threshold
         IN <<IF drift_detected THEN add_drift_alert(a, new_value, drift_score) ELSE a,
              [drift_detected |-> drift_detected, reason |-> "",
               drift_score |-> drift_score,
               threshold_used |-> adjusted_threshold,
               confidence |-> a.confidence_score,
               anchor_stability |-> a.is_stable]>>

----------------------------------------------------------------------------
(* Inputs of the anchor operations *)

\* values written by update_value (0 is a falsy stored value)
NewValues == {Num(0), Num(100)}

\* values probed by detect_drift
ProbeValues == {Num(100), Num(300)}

\* the anchors the runs start from
AnchorNames == {"productos_frecuentes", "presupuesto_promedio"}

\* confidence_boost: default, the documented maximum 0.2, and out of range
Boosts == {0, 200, -500}

\* threshold_multiplier: default 1.0 and 0.5
Multipliers == {Scale}

\* days_since_update: none elapsed, a long absence
Days == {0, MaxDays}

NoRet == [drift_detected |-> FALSE, reason |-> "none", drift_score |-> 0,
          threshold_used |-> 0, confidence |-> 0, anchor_stability |-> FALSE]

NoOp == [name |-> "create", days |-> 0]

\* rows of different ages: new, and one update and one alert short of the caps
InitialAges == {[updates |-> 0, drifts |-> 0], [updates |-> 49, drifts |-> 9]}

----------------------------------------------------------------------------
(* DriftDetector (app/services/conversation_service.py) *)

\* DriftDetector.__init__
NewDriftDetector == [cusum_positive |-> 0, cusum_negative |-> 0]

\* decision_encoding.get(d, 2)
decision_encoding(d) ==
    CASE d = "ahorro" -> 1
      [] d = "equilibrio" -> 2
      [] d = "conveniencia" -> 3
      [] OTHER -> 2

RECURSIVE SumSeq(_)
SumSeq(s) == IF s = <<>> THEN 0 ELSE Head(s) + SumSeq(Tail(s))

\* np.mean of the encoded history, in CusumUnit
historical_mean(historical_decisions) ==
    (SumSeq([i \in 1..Len(historical_decisions) |->
                decision_encoding(historical_decisions[i])]) * CusumUnit)
        \div Len(historical_decisions)

decision_limit == 3 * CusumUnit
default_sensitivity == CusumUnit \div 2

\* an accumulator that forgets what earlier calls left in it
cusum_accumulate_fresh(previous, deviation, target_shift) ==
    Max(0, deviation - target_shift \div 2)

\* max(0, accumulator + deviation - target_shift/2)
cusum_accumulate(previous, deviation, target_shift) ==
    Max(0, previous + deviation - target_shift \div 2)

NoCusum == [called |-> FALSE, change_detected |-> FALSE, reason |-> "",
            magnitude |-> 0, direction |-> "", confidence |-> 0]

\* cusum_test(historical_decisions, new_decision, sensitivity):
\* <<detector afterwards, returned dict>>; magnitude in CusumUnit, confidence in Scale
cusum_test(detector, historical_decisions, new_decision, sensitivity) ==
    IF historical_decisions = <<>>
    THEN <<detector, [NoCusum EXCEPT !.called = TRUE, !.reason = "no_historical_data"]>>
    ELSE
        LET deviation == decision_encoding(new_decision) * CusumUnit
                            - historical_mean(historical_decisions)
            positive == cusum_accumulate(detector.cusum_positive, deviation, sensitivity)
            negative == cusum_accumulate(detector.cusum_negative, -deviation, sensitivity)
            magnitude == Max(positive, negative)
        IN <<[cusum_positive |-> positive, cusum_negative |-> negative],
             [called |-> TRUE,
              change_detected |-> (positive > decision_limit \/ negative > decision_limit),
              reason |-> "",
              magnitude |-> magnitude,
              direction |-> IF positive > negative THEN "increase" ELSE "decrease",
              confidence |-> Min(Scale, (magnitude * Scale) \div decision_limit)]>>

\* page_hinkley_test: the running state before the first value
NoChange == [cumulative_sum |-> 0, min_cumulative |-> 0, max_cumulative |-> 0]

\* the running state left after a change point without the three resets
after_change_point_kept(running) == running

\* the three resets that follow the append of a change point
after_change_point(running) == NoChange

\* one iteration of the loop of page_hinkley_test: the running state and the
\* change points after the value at index i
page_hinkley_step(before, i, value, delta, lambda_threshold) ==
    LET cumulative_sum == before.running.cumulative_sum + value - delta
        min_cumulative == Min(before.running.min_cumulative, cumulative_sum)
        max_cumulative == Max(before.running.max_cumulative, cumulative_sum)
        running == [cumulative_sum |-> cumulative_sum,
                    min_cumulative |-> min_cumulative,
                    max_cumulative |-> max_cumulative]
    IN IF cumulative_sum - min_cumulative > lambda_threshold
       THEN [running |-> after_change_point(running),
             change_points |-> Append(before.change_points,
                [index |-> i, type |-> "upward_shift",
                 magnitude |-> cumulative_sum - min_cumulative,
                 confidence |-> Min(Scale, ((cumulative_sum - min_cumulative) * Scale)
                                                \div lambda_threshold)])]
       ELSE IF max_cumulative - cumulative_sum > lambda_threshold
       THEN [running |-> after_change_point(running),
             change_points |-> Append(before.change_points,
                [index |-> i, type |-> "downward_shift",
                 magnitude |-> max_cumulative - cumulative_sum,
                 confidence |-> Min(Scale, ((max_cumulative - cumulative_sum) * Scale)
                                                \div lambda_threshold)])]
       ELSE [running |-> running, change_points |-> before.change_points]

\* the loop of page_hinkley_test over the first n values of data_stream
RECURSIVE page_hinkley_loop(_, _, _, _)
page_hinkley_loop(data_stream, n, delta, lambda_threshold) ==
    IF n = 0 THEN [running |-> NoChange, change_points |-> <<>>]
    ELSE page_hinkley_step(page_hinkley_loop(data_stream, n - 1, delta, lambda_threshold),
                           n - 1, data_stream[n], delta, lambda_threshold)

\* page_hinkley_test(data_stream, delta, lambda_threshold): the returned dict
\* (most_recent_change is the last of change_points)
page_hinkley_test(data_stream, delta, lambda_threshold) ==
    LET change_points == page_hinkley_loop(data_stream, Len(data_stream), delta,
                                           lambda_threshold).change_points
    IN [changes_detected |-> Len(change_points) > 0,
        change_points |-> change_points]

\* _calculate_distance: haversine distance between the places of the model, in km
calculate_distance(point1, point2) == IF point1 = point2 THEN 0 ELSE 100

\* the features of detect_multivariate_outliers other than the distance from home
extract_features(interaction) ==
    <<interaction.satisfaccion, Len(interaction.productos), interaction.timestamp.hour,
      interaction.timestamp.weekday, decision_encoding(interaction.decision_tomada)>>

\* what detect_multivariate_outliers can answer for is_outlier.  A feature that
\* never varied gives a covariance matrix with a zero row, np.linalg.inv raises
\* LinAlgError and the answer is False; otherwise the Mahalanobis distance
\* decides, which this model leaves open.
detect_multivariate_outliers(historical_interactions) ==
    IF Len(historical_interactions) < 10 THEN {FALSE}
    ELSE IF \E f \in 1..5 :
                Cardinality({extract_features(historical_interactions[i])[f] :
                                i \in 1..Len(historical_interactions)}) = 1
    THEN {FALSE}
    ELSE BOOLEAN

----------------------------------------------------------------------------
(* Values of the service's anchors (JSON): None | number | string | list | dict *)
(* A list built by list(set(...)) has no specified order: it is a "bag".        *)

VNone == [t |-> "none", v |-> 0]
VNum(n) == [t |-> "num", v |-> n]
VStr(s) == [t |-> "str", v |-> s]
VList(l) == [t |-> "list", v |-> l]
VBag(S) == [t |-> "bag", v |-> S]
VDict(f) == [t |-> "dict", v |-> f]

IsList(x) == x.t \in {"list", "bag"}
Elems(x) == IF x.t = "list" THEN Range(x.v) ELSE x.v
Length(x) == IF x.t = "list" THEN Len(x.v) ELSE Cardinality(x.v)

\* list(set(a + b))
union_list(a, b) == VBag(Elems(a) \cup Elems(b))

\* tuple(current_location) of a two-element list
as_pair(x) ==
    IF x.t = "list" THEN x.v
    ELSE CHOOSE p \in [1..2 -> x.v] : p[1] # p[2]

----------------------------------------------------------------------------
(* SeasonalAnalyzer *)

\* a datetime, to the hour, within one year
Ordinal(month, day, hour) == (month * 100 + day) * 100 + hour

seasonal_patterns ==
    [navidad |->
        [period |-> [kind |-> "dates", start |-> <<12, 15>>, end |-> <<12, 31>>],
         expected_changes |->
            [productos_premium |-> VNum(300), frecuencia_compras |-> VNum(500),
             presupuesto |-> VNum(400),
             marcas_especiales |-> VList(<<"premium", "importadas">>)]],
     verano |->
        [period |-> [kind |-> "dates", start |-> <<12, 21>>, end |-> <<3, 20>>],
         expected_changes |->
            [productos_frescos |-> VNum(600), ubicacion_variabilidad |-> VNum(400),
             horarios_compra |-> VStr("flexible"),
             supermercados_turisticos |-> VNum(Scale)]],
     inicio_mes |->
        [period |-> [kind |-> "days", start |-> <<0, 1>>, end |-> <<0, 5>>],
         expected_changes |->
            [presupuesto |-> VNum(200), compras_volumen |-> VNum(300),
             productos_durables |-> VNum(400)]],
     fin_mes |->
        [period |-> [kind |-> "days", start |-> <<0, 25>>, end |-> <<0, 31>>],
         expected_changes |->
            [presupuesto |-> VNum(-300), marcas_economicas |-> VNum(500),
             productos_basicos |-> VNum(400)]]]

is_pattern_active(period, current_date) ==
    IF period.kind = "dates"
    THEN LET start_date == Ordinal(period.start[1], period.start[2], 0)
             end_date == Ordinal(period.end[1], period.end[2], 0)
             now == Ordinal(current_date.month, current_date.day, current_date.hour)
         IN IF start_date > end_date
            THEN now >= start_date \/ now <= end_date
            ELSE start_date <= now /\ now <= end_date
    ELSE period.start[2] <= current_date.day /\ current_date.day <= period.end[2]

\* the match scores appended for the keys both mappings have
match_score(actual_change, expected_magnitude) ==
    IF expected_magnitude.t = "num"
    THEN Max(0, Scale - (Abs(actual_change - expected_magnitude.v) * Scale)
                            \div Max(Abs(expected_magnitude.v), Scale))
    ELSE 0

calculate_pattern_match(user_behavior, expected_changes) ==
    LET scored == {k \in DOMAIN expected_changes \cap DOMAIN user_behavior :
                        expected_changes[k].t \in {"num", "list"}}
        scores == [k \in scored |-> match_score(user_behavior[k], expected_changes[k])]
    IN IF scored = {} THEN 0 ELSE SumOver(scores, scored) \div Cardinality(scored)

RECURSIVE MaxOver(_, _)
MaxOver(f, S) ==
    IF S = {} THEN 0
    ELSE LET k == CHOOSE k \in S : TRUE IN Max(f[k], MaxOver(f, S \ {k}))

seasonal_threshold == 700
mixed_threshold == 400

\* the best match over the patterns active on current_date
seasonal_explanation_score(user_behavior, current_date) ==
    LET active_patterns == {p \in DOMAIN seasonal_patterns :
                                is_pattern_active(seasonal_patterns[p].period, current_date)}
        match == [p \in active_patterns |->
                    calculate_pattern_match(user_behavior, seasonal_patterns[p].expected_changes)]
    IN MaxOver(match, active_patterns)

\* variant: everything at or below the seasonal threshold is a context drift
distinguish_seasonal_vs_drift_two_way(user_behavior, current_date) ==
    LET score == seasonal_explanation_score(user_behavior, current_date)
    IN IF score > seasonal_threshold
       THEN [type |-> "seasonal_change", confidence |-> score,
             action |-> "adjust_expectations_temporarily"]
       ELSE [type |-> "context_drift", confidence |-> Scale - score,
             action |-> "initiate_context_reset"]

distinguish_seasonal_vs_drift(user_behavior, current_date) ==
    LET score == seasonal_explanation_score(user_behavior, current_date)
    IN IF score > seasonal_threshold
       THEN [type |-> "seasonal_change", confidence |-> score,
             action |-> "adjust_expectations_temporarily"]
       ELSE IF score > mixed_threshold
       THEN [type |-> "mixed_seasonal_drift", confidence |-> score,
             action |-> "monitor_closely"]
       ELSE [type |-> "context_drift", confidence |-> Scale - score,
             action |-> "initiate_context_reset"]

----------------------------------------------------------------------------
(* WeightedMovingAverage.  alpha is in tenths; a weight of the window is in *)
(* units of 10 ^ -window_size; time is in weeks and an age weight, exp(-age  *)
(* in weeks), is in units of 8 ^ -MaxWeeks with exp(-1) taken as 3/8.  An     *)
(* average is the exact fraction num / den.                                  *)

RECURSIVE Pow(_, _)
Pow(b, e) == IF e = 0 THEN 1 ELSE b * Pow(b, e - 1)

\* _calculate_weights: alpha * (1 - alpha) ** i for i in range(window_size),
\* reversed, so that the last position has the largest weight
calculate_weights(window_size, alpha) ==
    [p \in 1..window_size |->
        alpha * Pow(10 - alpha, window_size - p) * Pow(10, p - 1)]

NewMovingAverage(window_size, alpha) ==
    [window_size |-> window_size, alpha |-> alpha, data_points |-> <<>>,
     weights |-> calculate_weights(window_size, alpha)]

\* _calculate_age_weight: exp(-age_hours / 168), the age taken from the clock
calculate_age_weight(timestamp, clock) ==
    Pow(3, clock - timestamp) * Pow(8, MaxWeeks - (clock - timestamp))

\* the float 0.0
ZeroAverage == [num |-> 0, den |-> 1]

\* _calculate_weighted_average
calculate_weighted_average(wma) ==
    LET n == Len(wma.data_points)
        weight == [i \in 1..n |-> wma.weights[i] * wma.data_points[i].age_weight]
        total_weight == SumSeq(weight)
        weighted_sum == SumSeq([i \in 1..n |-> wma.data_points[i].value * weight[i]])
    IN IF n = 0 THEN ZeroAverage
       ELSE IF total_weight > 0 THEN [num |-> weighted_sum, den |-> total_weight]
       ELSE ZeroAverage

\* update: <<the object afterwards, returned average>>; the deque drops its
\* oldest entry when it is full
update(wma, new_value, timestamp, clock) ==
    LET point == [value |-> new_value, timestamp |-> timestamp,
                  age_weight |-> calculate_age_weight(timestamp, clock)]
        after == [wma EXCEPT !.data_points = LastN(Append(@, point), wma.window_size)]
    IN <<after, calculate_weighted_average(after)>>

----------------------------------------------------------------------------
(* LocationHasher.  Inside the hasher a coordinate is an integer number of  *)
(* thousandths of a degree.  The SHA-256 digest of the location string is   *)
(* represented by the string's content, the pair of rounded coordinates:    *)
(* equal strings give equal digests and distinct strings are taken to give  *)
(* distinct digests.                                                        *)

\* grid steps of the precision levels: 0.001, 0.01 and 0.1 degrees
precision_configs == [high |-> 1, medium |-> 10, low |-> 100]

\* Python round(n / d): to the nearest integer, a tie to the even one.  The
\* code divides floats, so at an exact tie the rounding error of the quotient
\* decides; coordinates that are a tie at some level are left out of the inputs.
RoundHalfEven(n, d) ==
    LET q == n \div d
        r == n % d
    IN IF 2 * r > d \/ (2 * r = d /\ q % 2 = 1) THEN q + 1 ELSE q

IsTie(x) == \E level \in DOMAIN precision_configs :
                2 * (x % precision_configs[level]) = precision_configs[level]

\* high, medium and low, from the finest to the coarsest
Finer(fine, coarse) == precision_configs[fine] < precision_configs[coarse]

\* _generate_region_code
generate_region_code(lat, lng) ==
    IF -33700 <= lat /\ lat <= -33200 /\ -70900 <= lng /\ lng <= -70400
    THEN "RM_CENTRO"
    ELSE IF -33500 <= lat /\ lat <= -33200 /\ -70700 <= lng /\ lng <= -70400
    THEN "RM_ORIENTE"
    ELSE IF -33000 <= lat /\ lat <= -32500 /\ -71800 <= lng /\ lng <= -71200
    THEN "VAL_CENTRO"
    ELSE "OTHER"

create_location_hash(lat, lng, precision_level) ==
    LET precision == IF precision_level \in DOMAIN precision_configs
                     THEN precision_configs[precision_level]
                     ELSE precision_configs["medium"]
        rounded_lat == RoundHalfEven(lat, precision) * precision
        rounded_lng == RoundHalfEven(lng, precision) * precision
    IN [hash |-> <<rounded_lat, rounded_lng>>,
        region_code |-> generate_region_code(rounded_lat, rounded_lng),
        precision_level |-> precision_level]

----------------------------------------------------------------------------
(* ConversationService: configuration and drift detection *)

\* self.default_anchors_config, assigned in close_session
default_anchors_config ==
    [ubicacion_hogar |-> [weight |-> 350, stability_threshold |-> 800, decay_rate |-> 20],
     preferencias_precio |-> [weight |-> 250, stability_threshold |-> 700, decay_rate |-> 50],
     patrones_temporales |-> [weight |-> 200, stability_threshold |-> 600, decay_rate |-> 80],
     marcas_preferidas |-> [weight |-> 200, stability_threshold |-> 750, decay_rate |-> 30],
     allergies |-> [weight |-> 150, stability_threshold |-> 900, decay_rate |-> 10],
     dietary_restrictions |-> [weight |-> 150, stability_threshold |-> 900, decay_rate |-> 10]]

\* the in-memory ContextualAnchor dataclass
ServiceAnchor(name, current_value, confidence, update_count) ==
    [name |-> name,
     weight |-> default_anchors_config[name].weight,
     stability_threshold |-> default_anchors_config[name].stability_threshold,
     decay_rate |-> default_anchors_config[name].decay_rate,
     current_value |-> current_value,
     confidence |-> confidence,
     update_count |-> update_count,
     update_history |-> <<>>]

\* brands found in the product names by _calculate_anchor_deviation
deviation_brands == {"soprole", "ideal", "carozzi", "lider", "jumbo"}
\* brands found in the product names by _extract_anchor_value_from_interaction
extraction_brands == {"soprole", "ideal", "carozzi", "lider", "jumbo", "tottus"}

brands_in(productos, known) ==
    UNION {productos[i].marcas \cap known : i \in 1..Len(productos)}

calculate_anchor_deviation(interaction, a) ==
    LET value == a.current_value IN
    IF value = VNone THEN 0
    ELSE CASE a.name = "ubicacion_hogar" ->
                IF IsList(value) /\ Length(value) = 2
                THEN Min(Scale, (calculate_distance(as_pair(value), interaction.ubicacion)
                                    * Scale) \div 10)
                ELSE 0
           [] a.name = "preferencias_precio" ->
                LET current_pref == IF "prioridad" \in DOMAIN value.v
                                    THEN value.v["prioridad"].v ELSE "equilibrio"
                    decision_similarity ==
                        IF current_pref = interaction.decision_tomada THEN Scale ELSE 500
                IN Scale - decision_similarity
           [] a.name = "patrones_temporales" ->
                IF "horario_preferido" \in DOMAIN value.v
                THEN LET hour_diff == Abs(interaction.timestamp.hour * Scale
                                            - value.v["horario_preferido"].v)
                     IN Min(Scale, hour_diff \div 12)
                ELSE 0
           [] a.name = "marcas_preferidas" ->
                LET preferred_brands == IF "marcas" \in DOMAIN value.v
                                        THEN Elems(value.v["marcas"]) ELSE {}
                    interaction_brands == brands_in(interaction.productos, deviation_brands)
                IN IF preferred_brands # {} /\ interaction_brands # {}
                   THEN Scale - (Cardinality(preferred_brands \cap interaction_brands) * Scale)
                                    \div Cardinality(preferred_brands)
                   ELSE 0
           [] OTHER -> 0

\* f"{anchor_name}_drift"
anchor_drift_type(anchor_name) ==
    CASE anchor_name = "ubicacion_hogar" -> "ubicacion_hogar_drift"
      [] anchor_name = "preferencias_precio" -> "preferencias_precio_drift"
      [] anchor_name = "patrones_temporales" -> "patrones_temporales_drift"
      [] anchor_name = "marcas_preferidas" -> "marcas_preferidas_drift"
      [] anchor_name = "allergies" -> "allergies_drift"
      [] OTHER -> "dietary_restrictions_drift"

\* _count_premium_products
count_premium_products(productos) ==
    IF productos = <<>> THEN 0
    ELSE (Cardinality({i \in 1..Len(productos) : productos[i].premium}) * Scale)
            \div Len(productos)

NoBehavior == [k \in {} |-> 0]

\* _extract_behavior_metrics; recent_interactions is the loaded list
extract_behavior_metrics(interaction, recent_interactions) ==
    IF recent_interactions = <<>> THEN NoBehavior
    ELSE LET last5 == LastN(recent_interactions, 5)
             recent_satisfactions == [i \in 1..Len(last5) |-> last5[i].satisfaccion]
             recent_decisions == {last5[i].decision_tomada : i \in 1..Len(last5)}
         IN [satisfaction_trend |-> SumSeq(recent_satisfactions) \div Len(last5) - 3 * Scale,
             decision_consistency |-> (Cardinality(recent_decisions) * Scale) \div Len(last5),
             productos_premium |-> count_premium_products(interaction.productos),
             frecuencia_compras |-> (Len(recent_interactions) * Scale) \div 30,
             presupuesto_estimado |-> Len(interaction.productos) * 2000 * Scale]

\* a verdict that is content with a single signal
enough_signals_single(drift_signals) == Cardinality(DOMAIN drift_signals) >= 1

\* len(drift_signals) >= 2
enough_signals(drift_signals) == Cardinality(DOMAIN drift_signals) >= 2

\* a verdict that never looks at the seasonal analysis
is_seasonal_change_ignored(seasonal_result) == FALSE

\* seasonal_result["type"] == "seasonal_change"
is_seasonal_change(seasonal_result) == seasonal_result.type = "seasonal_change"

drift_type_mapping(most_common_type) ==
    CASE most_common_type = "ubicacion_hogar_drift" -> "location_drift"
      [] most_common_type = "preferencias_precio_drift" -> "preference_shift"
      [] most_common_type = "patrones_temporales_drift" -> "temporal_change"
      [] most_common_type = "preference_shift" -> "preference_shift"
      [] most_common_type = "erratic_behavior" -> "erratic_behavior"
      [] OTHER -> "preference_shift"

\* the DriftDetectionResults _evaluate_drift_significance can return: when
\* several signal types are equally frequent, max(set(...), key=...) yields
\* whichever of them the set happens to list first
evaluate_drift_significance(drift_signals, seasonal_result) ==
    LET names == DOMAIN drift_signals IN
    IF is_seasonal_change(seasonal_result)
    THEN {[has_drift |-> FALSE, drift_type |-> "seasonal_change",
           confidence |-> seasonal_result.confidence, affected_anchors |-> {},
           detection_algorithm |-> "variance_test", magnitude |-> 0,
           recommended_action |-> "adjust_seasonal_expectations"]}
    ELSE IF enough_signals(drift_signals)
    THEN LET final_confidence ==
                SumOver([s \in names |-> drift_signals[s].confidence], names)
                    \div Cardinality(names)
             max_severity == MaxOver([s \in names |-> drift_signals[s].severity], names)
             count(ty) == Cardinality({s \in names : drift_signals[s].type = ty})
             drift_types == {drift_signals[s].type : s \in names}
             most_common == {ty \in drift_types : \A other \in drift_types :
                                                    count(other) <= count(ty)}
             recommended_action ==
                IF final_confidence > 800 /\ max_severity > 700
                THEN "immediate_context_reset"
                ELSE IF final_confidence > 600 THEN "gradual_adaptation"
                ELSE "increase_monitoring"
         IN {[has_drift |-> TRUE, drift_type |-> drift_type_mapping(ty),
              confidence |-> final_confidence, affected_anchors |-> names,
              detection_algorithm |-> "cusum", magnitude |-> max_severity,
              recommended_action |-> recommended_action] : ty \in most_common}
    ELSE {[has_drift |-> FALSE, drift_type |-> "none", confidence |-> 0,
           affected_anchors |-> {}, detection_algorithm |-> "cusum", magnitude |-> 0,
           recommended_action |-> "continue_normal_operation"]}

\* decisions of recent_interactions[-10:]
recent_decisions_of(recent_interactions) ==
    LET last10 == LastN(recent_interactions, 10)
    IN [i \in 1..Len(last10) |-> last10[i].decision_tomada]

\* _detect_context_drift up to the verdict: the signals collected, the seasonal
\* analysis, the cusum_test result and the detector afterwards.  is_outlier is
\* what detect_multivariate_outliers answered.
detect_context_drift(interaction, user_profile, detector, is_outlier) ==
    LET anchors == user_profile.anchors
        recent_interactions == user_profile.recent_interactions
        deviating == {n \in DOMAIN anchors :
                        /\ anchors[n].current_value # VNone
                        /\ calculate_anchor_deviation(interaction, anchors[n])
                                > anchors[n].stability_threshold}
        anchor_signal(n) ==
            LET deviation == calculate_anchor_deviation(interaction, anchors[n])
            IN [severity |-> deviation,
                confidence |-> Min(Scale, (deviation * Scale)
                                            \div anchors[n].stability_threshold),
                type |-> anchor_drift_type(n)]
        cusum == IF Len(recent_interactions) >= 5
                 THEN cusum_test(detector, recent_decisions_of(recent_interactions),
                                 interaction.decision_tomada, default_sensitivity)
                 ELSE <<detector, NoCusum>>
        cusum_names == IF cusum[2].change_detected THEN {"decision_pattern"} ELSE {}
        outlier_names == IF Len(recent_interactions) >= 10 /\ is_outlier
                         THEN {"multivariate_outlier"} ELSE {}
        drift_signals ==
            [s \in deviating \cup cusum_names \cup outlier_names |->
                CASE s = "decision_pattern" ->
                        [severity |-> (cusum[2].magnitude * Scale) \div CusumUnit,
                         confidence |-> cusum[2].confidence,
                         type |-> "preference_shift"]
                  [] s = "multivariate_outlier" ->
                        [severity |-> Scale, confidence |-> Scale,
                         type |-> "erratic_behavior"]
                  [] OTHER -> anchor_signal(s)]
        user_behavior == extract_behavior_metrics(interaction, recent_interactions)
    IN [drift_signals |-> drift_signals,
        seasonal_result |-> distinguish_seasonal_vs_drift(user_behavior, interaction.timestamp),
        cusum_result |-> cusum[2],
        detector |-> cusum[1]]

----------------------------------------------------------------------------
(* ConversationService: updating and persisting the anchors *)

blend_number(old, new, blend_ratio) ==
    (old * (Scale - blend_ratio) + new * blend_ratio) \div Scale

\* one key of two dictionaries being blended
blend_entry(old, new, blend_ratio) ==
    IF old.t = "num" /\ new.t = "num" THEN VNum(blend_number(old.v, new.v, blend_ratio))
    ELSE IF IsList(old) /\ IsList(new) THEN union_list(old, new)
    ELSE IF blend_ratio > 500 THEN new ELSE old

\* _blend_anchor_values
blend_anchor_values(old_value, new_value, blend_ratio) ==
    IF old_value.t = "dict" /\ new_value.t = "dict"
    THEN VDict([k \in DOMAIN old_value.v \cup DOMAIN new_value.v |->
                    IF k \notin DOMAIN new_value.v THEN old_value.v[k]
                    ELSE IF k \notin DOMAIN old_value.v THEN new_value.v[k]
                    ELSE blend_entry(old_value.v[k], new_value.v[k], blend_ratio)])
    ELSE IF IsList(old_value) /\ IsList(new_value)
    THEN IF blend_ratio > 500 THEN union_list(old_value, new_value) ELSE old_value
    ELSE IF old_value.t = "num" /\ new_value.t = "num"
    THEN VNum(blend_number(old_value.v, new_value.v, blend_ratio))
    ELSE IF blend_ratio > 500 THEN new_value ELSE old_value

\* _extract_anchor_value_from_interaction
extract_anchor_value_from_interaction(interaction, anchor_name) ==
    CASE anchor_name = "ubicacion_hogar" -> VList(interaction.ubicacion)
      [] anchor_name = "preferencias_precio" ->
            VDict([prioridad |-> VStr(interaction.decision_tomada),
                   satisfaccion_promedio |-> VNum(interaction.satisfaccion)])
      [] anchor_name = "patrones_temporales" ->
            VDict([horario_preferido |-> VNum(interaction.timestamp.hour * Scale),
                   dia_semana_preferido |-> VNum(interaction.timestamp.weekday * Scale),
                   frecuencia_semanal |-> VNum(Scale)])
      [] anchor_name = "marcas_preferidas" ->
            VDict([marcas |-> VBag(brands_in(interaction.productos, extraction_brands)),
                   supermercados |-> VList(interaction.supermercados_visitados)])
      [] OTHER -> VNone

\* _update_anchors_normal
update_anchors_normal(anchors, interaction) ==
    [n \in DOMAIN anchors |->
        LET a == anchors[n]
            new_value == extract_anchor_value_from_interaction(interaction, n)
        IN IF new_value = VNone THEN a
           ELSE IF a.current_value # VNone
           THEN [a EXCEPT !.current_value = blend_anchor_values(@, new_value, a.decay_rate),
                          !.confidence = Min(Scale, @ + 10),
                          !.update_count = @ + 1]
           ELSE [a EXCEPT !.current_value = new_value,
                          !.confidence = 500,
                          !.update_count = @ + 1]]

\* variant: every drift type answered like a preference shift
response_strategies_uniform ==
    [ty \in {"location_drift", "preference_shift", "temporal_change",
             "erratic_behavior"} |->
        [anchor_reset_percentage |-> 600, confidence_threshold |-> 500]]

response_strategies ==
    [location_drift |-> [anchor_reset_percentage |-> 800, confidence_threshold |-> 300],
     preference_shift |-> [anchor_reset_percentage |-> 600, confidence_threshold |-> 500],
     temporal_change |-> [anchor_reset_percentage |-> 400, confidence_threshold |-> 600],
     erratic_behavior |-> [anchor_reset_percentage |-> 100, confidence_threshold |-> 800]]

\* _handle_context_drift
handle_context_drift(anchors, interaction, drift_result) ==
    LET strategy == IF drift_result.drift_type \in DOMAIN response_strategies
                    THEN response_strategies[drift_result.drift_type]
                    ELSE response_strategies["preference_shift"]
    IN [n \in DOMAIN anchors |->
        LET a == anchors[n]
            new_value == extract_anchor_value_from_interaction(interaction, n)
            value == IF a.current_value # VNone
                     THEN blend_anchor_values(a.current_value, new_value,
                                              strategy.anchor_reset_percentage)
                     ELSE new_value
        IN IF n \notin drift_result.affected_anchors \/ new_value = VNone THEN a
           ELSE [a EXCEPT !.current_value = value,
                          !.confidence = strategy.confidence_threshold,
                          !.update_count = @ + 1,
                          !.update_history = Append(@,
                                [trigger |-> "drift_detection",
                                 drift_type |-> drift_result.drift_type,
                                 confidence_before |-> strategy.confidence_threshold,
                                 value_before |-> value])]]

\* the anchors a call has written to: every anchor with a value to extract, or
\* after a drift those among the affected ones
updated_anchors(anchors, interaction, drift_result) ==
    {n \in DOMAIN anchors :
        /\ extract_anchor_value_from_interaction(interaction, n) # VNone
        /\ drift_result.has_drift => n \in drift_result.affected_anchors}

----------------------------------------------------------------------------
(* ConversationService: what leaves the engine.  The service keeps          *)
(* coordinates in hundredths of a degree, the hasher works in thousandths.  *)
(* The digest of hash_data is represented by hash_data itself.              *)

\* _classify_product_category: the first category with a keyword in the name
classify_product_category(producto) == producto.categoria

\* _bucket_satisfaction
bucket_satisfaction(satisfaction_score) ==
    IF 2 * satisfaction_score >= 9 * Scale THEN "very_high"
    ELSE IF 2 * satisfaction_score >= 7 * Scale THEN "high"
    ELSE IF 2 * satisfaction_score >= 5 * Scale THEN "medium"
    ELSE IF 2 * satisfaction_score >= 3 * Scale THEN "low"
    ELSE "very_low"

\* sorted(product_categories): the categories with their multiplicities
sorted_categories(productos) ==
    LET categories == {classify_product_category(productos[i]) : i \in 1..Len(productos)}
    IN [c \in categories |->
            Cardinality({i \in 1..Len(productos) :
                            classify_product_category(productos[i]) = c})]

\* _create_interaction_hash
create_interaction_hash(interaction) ==
    [categories |-> sorted_categories(interaction.productos),
     decision_type |-> interaction.decision_tomada,
     region |-> create_location_hash(10 * interaction.ubicacion[1],
                                     10 * interaction.ubicacion[2],
                                     "medium").region_code,
     satisfaction_bucket |-> bucket_satisfaction(interaction.satisfaccion)]

\* the row _update_anonymous_cache inserts on a given day
new_cache_entry(interaction, day) ==
    [query_hash |-> create_interaction_hash(interaction),
     region_code |-> create_location_hash(10 * interaction.ubicacion[1],
                                          10 * interaction.ubicacion[2],
                                          "medium").region_code,
     product_categories |->
        [i \in 1..Len(interaction.productos) |->
            classify_product_category(interaction.productos[i])],
     optimization_params |->
        [decision_type |-> interaction.decision_tomada,
         satisfaction_bucket |-> bucket_satisfaction(interaction.satisfaccion)],
     result_data |->
        [supermercados_sugeridos |-> interaction.supermercados_visitados,
         satisfaction_outcome |-> bucket_satisfaction(interaction.satisfaccion)],
     usage_count |-> 1,
     created_at |-> day,
     expires_at |-> day + 30]

NoLocation == [region |-> "none", confidence |-> 0]

\* _extract_primary_location: the values it can return.  A list that
\* list(set(...)) built has its two elements in an order the code does not fix.
extract_primary_location(anchors) ==
    IF "ubicacion_hogar" \notin DOMAIN anchors THEN {NoLocation}
    ELSE LET location_anchor == anchors["ubicacion_hogar"]
             location == location_anchor.current_value
             orders == IF location.t = "list" THEN {location.v}
                       ELSE {l \in location.v \X location.v : l[1] # l[2]}
         IN IF IsList(location) /\ Length(location) = 2 /\ location_anchor.confidence > 300
            THEN {[region |-> create_location_hash(10 * l[1], 10 * l[2], "low").region_code,
                   confidence |-> location_anchor.confidence] : l \in orders}
            ELSE {NoLocation}

----------------------------------------------------------------------------
(* ConversationService: the tables *)

NoRows == [n \in {} |-> 0]

InteractionLimit == 50

Reverse(s) == [i \in 1..Len(s) |-> s[Len(s) + 1 - i]]

FirstN(s, n) == IF Len(s) <= n THEN s ELSE SubSeq(s, 1, n)

\* _load_full_user_context: the anchors with confidence_score > 0.1 and the
\* newest interactions first
load_full_user_context(rows, interactions) ==
    [anchors |-> [n \in {m \in DOMAIN rows : rows[m].confidence_score > 100} |->
                    ServiceAnchor(n, rows[n].anchor_value, rows[n].confidence_score,
                                  rows[n].update_count)],
     recent_interactions |-> FirstN(Reverse(interactions), InteractionLimit)]

\* _create_new_user_profile
create_new_user_profile ==
    [anchors |-> [n \in DOMAIN default_anchors_config |-> ServiceAnchor(n, VNone, 0, 0)],
     recent_interactions |-> <<>>]

\* _load_or_create_user_profile
load_or_create_user_profile(user_exists, rows, interactions) ==
    IF user_exists THEN load_full_user_context(rows, interactions)
    ELSE create_new_user_profile

\* _save_updated_anchors: upsert of every anchor that has a value
save_updated_anchors(rows, anchors) ==
    LET saved == {n \in DOMAIN anchors : anchors[n].current_value # VNone}
    IN [n \in DOMAIN rows \cup saved |->
            IF n \in saved
            THEN [anchor_value |-> anchors[n].current_value,
                  confidence_score |-> anchors[n].confidence,
                  stability_threshold |-> IF n \in DOMAIN rows
                                          THEN rows[n].stability_threshold
                                          ELSE anchors[n].stability_threshold,
                  update_count |-> anchors[n].update_count]
            ELSE rows[n]]

\* _update_user_context, in memory: the anchors after the verdict is applied
update_user_context(anchors, interaction, drift_result) ==
    IF drift_result.has_drift
    THEN handle_context_drift(anchors, interaction, drift_result)
    ELSE update_anchors_normal(anchors, interaction)

----------------------------------------------------------------------------
(* Inputs of the service *)

Users == {"u1", "u2"}
Tasks == 1..MaxCalls

Home == <<-3345, -7065>>        \* hundredths of a degree
Away == <<-3305, -7162>>

Morning == [month |-> 6, day |-> 10, hour |-> 9, weekday |-> 2]
Christmas == [month |-> 12, day |-> 20, hour |-> 22, weekday |-> 6]

\* a product name, by what the keyword searches find in it
Staples == <<[marcas |-> {"soprole"}, premium |-> FALSE, categoria |-> "lacteos"]>>
Treats == <<[marcas |-> {"ideal"}, premium |-> TRUE, categoria |-> "panaderia"],
            [marcas |-> {"tottus"}, premium |-> FALSE, categoria |-> "otros"],
            [marcas |-> {"ideal"}, premium |-> FALSE, categoria |-> "panaderia"]>>

Interaction(productos, ubicacion, decision_tomada, timestamp) ==
    [productos |-> productos, ubicacion |-> ubicacion,
     decision_tomada |-> decision_tomada,
     supermercados_visitados |-> <<"lider">>,
     satisfaccion |-> 3 * Scale,
     timestamp |-> timestamp]

Interactions ==
    {Interaction(p, u, d, t) : p \in {Staples, Treats}, u \in {Home, Away},
                               d \in {"ahorro", "conveniencia"},
                               t \in {Morning, Christmas}}

\* the interaction every user of the initial database has made so far
HabitualInteraction == Interaction(Staples, Home, "ahorro", Morning)

\* the rows of a user after depth uneventful calls of HabitualInteraction
RECURSIVE Habit(_)
Habit(depth) ==
    IF depth = 0 THEN [rows |-> NoRows, interactions |-> <<>>]
    ELSE LET before == Habit(depth - 1)
             user_profile == load_or_create_user_profile(depth > 1, before.rows,
                                                         before.interactions)
             detection == detect_context_drift(HabitualInteraction, user_profile,
                                               NewDriftDetector, FALSE)
             drift_result == CHOOSE r \in evaluate_drift_significance(
                                detection.drift_signals, detection.seasonal_result) : TRUE
         IN [rows |-> save_updated_anchors(before.rows,
                        update_user_context(user_profile.anchors, HabitualInteraction,
                                            drift_result)),
             interactions |-> Append(before.interactions, HabitualInteraction)]

HistoryDepths == {0, 1, 5, 10}
InitialDatabase == [depth \in HistoryDepths |-> Habit(depth)]

----------------------------------------------------------------------------
(* States in which a component takes no part *)

NoOutcome == [has_drift |-> FALSE, drift_type |-> "none", confidence |-> 0,
              affected_anchors |-> {}, detection_algorithm |-> "none", magnitude |-> 0,
              recommended_action |-> "none"]

NoSeasonal == [type |-> "none", confidence |-> 0, action |-> "none"]

NoInteraction == Interaction(<<>>, <<0, 0>>, "", [month |-> 0, day |-> 0, hour |-> 0,
                                                  weekday |-> 0])

IdleTask ==
    [pc |-> "idle", user |-> "none", interaction |-> NoInteraction, anchors |-> NoRows,
     recent_interactions |-> <<>>, drift_signals |-> NoRows,
     seasonal_result |-> NoSeasonal, cusum_result |-> NoCusum, cusum_alone |-> NoCusum,
     drift_result |-> NoOutcome, updated |-> {}]

NoCusumCall == [historical_decisions |-> <<>>, new_decision |-> "", sensitivity |-> 0,
                result |-> NoCusum]

AnchorIdle ==
    /\ anchor = NewAnchor("productos_frecuentes")
    /\ ret = NoRet
    /\ last_op = NoOp
    /\ calls = [update_value |-> 0, apply_temporal_decay |-> 0, detect_drift |-> 0]

CusumIdle ==
    /\ cusum_call = NoCusumCall
    /\ cusum_count = 0

HistoryIdle ==
    /\ update_log = <<>>
    /\ alert_log = <<>>

NoAverage == [num |-> 0, den |-> 0]

MovingAverageIdle ==
    /\ moving_average = NewMovingAverage(1, 3)
    /\ wall_clock = 0
    /\ average = NoAverage
    /\ updates = 0

\* a call that has not reached _update_anonymous_cache
IdleCacheTask == [pc |-> "idle", interaction |-> NoInteraction, existing |-> FALSE]

NoCache == [key \in {} |-> 0]

CacheIdle ==
    /\ anonymous_cache = NoCache
    /\ cache_task = <<>>
    /\ today = 0
    /\ cached = NoCache

\* no function is being applied on its own
NoProbe == [fn |-> "none"]

ExtraIdle == HistoryIdle /\ probe = NoProbe /\ MovingAverageIdle /\ CacheIdle

ServiceIdle ==
    /\ components = FALSE
    /\ closes = 0
    /\ usuarios = {}
    /\ contextual_anchors = [u \in Users |-> NoRows]
    /\ user_interactions = [u \in Users |-> <<>>]
    /\ context_changes = [u \in Users |-> <<>>]
    /\ task = [i \in Tasks |-> IdleTask]
    /\ own_cusum = [u \in Users |-> NewDriftDetector]

----------------------------------------------------------------------------
(* The anchor as a state machine *)

\* a row that has already seen two confident observations of 100
SeasonedAnchor(name) ==
    update_value(update_value(NewAnchor(name), Num(100), 200), Num(100), 200)

InitAnchor ==
    /\ \E name \in AnchorNames : anchor \in {NewAnchor(name), SeasonedAnchor(name)}
    /\ ret = NoRet
    /\ last_op = NoOp
    /\ calls = [update_value |-> 0, apply_temporal_decay |-> 0, detect_drift |-> 0]
    /\ drift_detector = NewDriftDetector
    /\ CusumIdle
    /\ ServiceIdle
    /\ ExtraIdle

UpdateValue ==
    /\ calls.update_value < MaxUpdates
    /\ calls' = [calls EXCEPT !.update_value = @ + 1]
    /\ \E new_value \in NewValues, confidence_boost \in Boosts :
        /\ anchor' = update_value(anchor, new_value, confidence_boost)
        /\ last_op' = [name |-> "update_value", days |-> 0]
    /\ ret' = NoRet
    /\ UNCHANGED <<drift_detector, cusum_vars, service_vars, extra_vars>>

ApplyTemporalDecay ==
    /\ calls.apply_temporal_decay < MaxDecays
    /\ calls' = [calls EXCEPT !.apply_temporal_decay = @ + 1]
    /\ \E days_since_update \in Days :
        /\ anchor' = apply_temporal_decay(anchor, days_since_update)
        /\ last_op' = [name |-> "apply_temporal_decay", days |-> days_since_update]
    /\ ret' = NoRet
    /\ UNCHANGED <<drift_detector, cusum_vars, service_vars, extra_vars>>

DetectDrift ==
    /\ calls.detect_drift < MaxDetects
    /\ calls' = [calls EXCEPT !.detect_drift = @ + 1]
    /\ \E new_value \in ProbeValues, threshold_multiplier \in Multipliers :
        LET r == detect_drift(anchor, new_value, threshold_multiplier)
        IN /\ anchor' = r[1]
           /\ ret' = r[2]
           /\ last_op' = [name |-> "detect_drift", days |-> 0]
    /\ UNCHANGED <<drift_detector, cusum_vars, service_vars, extra_vars>>

NextAnchor == UpdateValue \/ ApplyTemporalDecay \/ DetectDrift

SpecAnchor == InitAnchor /\ [][NextAnchor]_vars

----------------------------------------------------------------------------
(* SpecHistory: a long-lived anchor; update_log and alert_log record the   *)
(* update_value calls and the detected drifts since the row was created    *)

\* the row after n update_value calls, the i-th with the value 10 * i
RECURSIVE Aged(_, _)
Aged(name, n) ==
    IF n = 0 THEN NewAnchor(name)
    ELSE CHOOSE row \in {update_value(a, Num(10 * n), 200) :
                             a \in {Aged(name, n - 1)}} : TRUE

AgedLog(n) == [i \in 1..n |-> Num(10 * i)]

\* a value far from anything the anchor holds
Outlying(m) == Num(100 * Scale + m)

\* the row after m further detect_drift calls that each report a drift
RECURSIVE Alerted(_, _)
Alerted(a, m) ==
    IF m = 0 THEN a
    ELSE CHOOSE row \in {detect_drift(b, Outlying(m), Scale)[1] :
                             b \in {Alerted(a, m - 1)}} : TRUE

AlertedLog(m) == [i \in 1..m |-> Outlying(i)]

HistoryCalls == calls.update_value + calls.detect_drift

InitHistory ==
    /\ \E age \in InitialAges :
        /\ anchor = Alerted(Aged("presupuesto_promedio", age.updates), age.drifts)
        /\ update_log = AgedLog(age.updates)
        /\ alert_log = AlertedLog(age.drifts)
    /\ ret = NoRet
    /\ last_op = NoOp
    /\ calls = [update_value |-> 0, apply_temporal_decay |-> 0, detect_drift |-> 0]
    /\ drift_detector = NewDriftDetector
    /\ CusumIdle
    /\ ServiceIdle
    /\ probe = NoProbe
    /\ MovingAverageIdle
    /\ CacheIdle

HistoryUpdate ==
    /\ HistoryCalls < MaxHistoryCalls
    /\ calls' = [calls EXCEPT !.update_value = @ + 1]
    /\ \E new_value \in NewValues :
        /\ anchor' = update_value(anchor, new_value, 0)
        /\ update_log' = Append(update_log, new_value)
    /\ last_op' = [name |-> "update_value", days |-> 0]
    /\ ret' = NoRet
    /\ UNCHANGED <<alert_log, drift_detector, cusum_vars, service_vars, probe, wma_vars,
                   cache_vars>>

HistoryDetect ==
    /\ HistoryCalls < MaxHistoryCalls
    /\ calls' = [calls EXCEPT !.detect_drift = @ + 1]
    /\ \E new_value \in {anchor.anchor_value, Outlying(HistoryCalls)} :
        LET r == detect_drift(anchor, new_value, Scale)
        IN /\ anchor' = r[1]
           /\ ret' = r[2]
           /\ alert_log' = IF r[2].drift_detected
                           THEN Append(alert_log, new_value) ELSE alert_log
    /\ last_op' = [name |-> "detect_drift", days |-> 0]
    /\ UNCHANGED <<update_log, drift_detector, cusum_vars, service_vars, probe, wma_vars,
                   cache_vars>>

NextHistory == HistoryUpdate \/ HistoryDetect

SpecHistory == InitHistory /\ [][NextHistory]_vars

----------------------------------------------------------------------------
(* One DriftDetector called directly *)

FiveSavings == <<"ahorro", "ahorro", "ahorro", "ahorro", "ahorro">>

Histories == {<<>>, FiveSavings, <<"conveniencia", "conveniencia", "equilibrio">>,
              <<"ahorro", "otro">>}
Decisions == {"ahorro", "equilibrio", "conveniencia", "otro"}
Sensitivities == {default_sensitivity, CusumUnit}

InitCusum ==
    /\ drift_detector = NewDriftDetector
    /\ CusumIdle
    /\ AnchorIdle
    /\ ServiceIdle
    /\ ExtraIdle

CusumTest ==
    /\ cusum_count < MaxCusumCalls
    /\ cusum_count' = cusum_count + 1
    /\ \E historical_decisions \in Histories, new_decision \in Decisions,
          sensitivity \in Sensitivities :
        LET r == cusum_test(drift_detector, historical_decisions, new_decision, sensitivity)
        IN /\ drift_detector' = r[1]
           /\ cusum_call' = [historical_decisions |-> historical_decisions,
                             new_decision |-> new_decision,
                             sensitivity |-> sensitivity,
                             result |-> r[2]]
    /\ UNCHANGED <<anchor_vars, service_vars, extra_vars>>

NextCusum == CusumTest

SpecCusum == InitCusum /\ [][NextCusum]_vars

----------------------------------------------------------------------------
(* The service: process_user_interaction calls over one ConversationService *)

\* the database an earlier process left behind; the service is newly constructed
Init ==
    /\ components = FALSE
    /\ closes = 0
    /\ drift_detector = NewDriftDetector
    /\ \E depth \in HistoryDepths :
        /\ usuarios = IF depth = 0 THEN {} ELSE Users
        /\ contextual_anchors = [u \in Users |-> InitialDatabase[depth].rows]
        /\ user_interactions = [u \in Users |-> InitialDatabase[depth].interactions]
    /\ context_changes = [u \in Users |-> <<>>]
    /\ task = [i \in Tasks |-> IdleTask]
    /\ own_cusum = [u \in Users |-> NewDriftDetector]
    /\ CusumIdle
    /\ AnchorIdle
    /\ ExtraIdle

\* close_session: the only place that assigns drift_detector, seasonal_analyzer,
\* location_hasher and default_anchors_config
CloseSession ==
    /\ closes < MaxCloses
    /\ closes' = closes + 1
    /\ components' = TRUE
    /\ drift_detector' = NewDriftDetector
    /\ own_cusum' = [u \in Users |-> NewDriftDetector]
    /\ UNCHANGED <<usuarios, contextual_anchors, user_interactions, context_changes, task>>
    /\ UNCHANGED <<anchor_vars, cusum_vars, extra_vars>>

\* process_user_interaction up to the profile: _load_or_create_user_profile.
\* Without the components the call ends in AttributeError and writes nothing.
LoadProfile(i) ==
    /\ task[i].pc = "idle"
    /\ \A j \in 1..(i - 1) : task[j].pc # "idle"
    /\ IF components
       THEN \E user \in Users, interaction \in Interactions :
            LET user_profile == load_or_create_user_profile(user \in usuarios,
                                    contextual_anchors[user], user_interactions[user])
            IN /\ task' = [task EXCEPT ![i] =
                            [IdleTask EXCEPT !.pc = "loaded", !.user = user,
                                             !.interaction = interaction,
                                             !.anchors = user_profile.anchors,
                                             !.recent_interactions =
                                                user_profile.recent_interactions]]
               /\ usuarios' = usuarios \cup {user}
       ELSE /\ task' = [task EXCEPT ![i].pc = "raised"]
            /\ UNCHANGED usuarios
    /\ UNCHANGED <<components, closes, drift_detector, contextual_anchors,
                   user_interactions, context_changes, own_cusum>>
    /\ UNCHANGED <<anchor_vars, cusum_vars, extra_vars>>

\* _detect_context_drift, then the in-memory half of _update_user_context
\* (_handle_context_drift or _update_anchors_normal): no await in between, so
\* the event loop runs them as one step
DetectAndUpdate(i) ==
    /\ task[i].pc = "loaded"
    /\ LET t == task[i]
           user_profile == [anchors |-> t.anchors,
                            recent_interactions |-> t.recent_interactions]
           alone == IF Len(t.recent_interactions) >= 5
                    THEN cusum_test(own_cusum[t.user],
                                    recent_decisions_of(t.recent_interactions),
                                    t.interaction.decision_tomada, default_sensitivity)
                    ELSE <<own_cusum[t.user], NoCusum>>
       IN \E is_outlier \in detect_multivariate_outliers(t.recent_interactions) :
            LET detection == detect_context_drift(t.interaction, user_profile,
                                                  drift_detector, is_outlier)
            IN \E drift_result \in evaluate_drift_significance(detection.drift_signals,
                                                               detection.seasonal_result) :
                /\ drift_detector' = detection.detector
                /\ own_cusum' = [own_cusum EXCEPT ![t.user] = alone[1]]
                /\ task' = [task EXCEPT ![i] =
                        [t EXCEPT !.pc = "updated",
                                  !.recent_interactions = <<>>,
                                  !.drift_signals = detection.drift_signals,
                                  !.seasonal_result = detection.seasonal_result,
                                  !.cusum_result = detection.cusum_result,
                                  !.cusum_alone = alone[2],
                                  !.drift_result = drift_result,
                                  !.anchors = update_user_context(t.anchors, t.interaction,
                                                                  drift_result),
                                  !.updated = updated_anchors(t.anchors, t.interaction,
                                                              drift_result)]]
    /\ UNCHANGED <<components, closes, usuarios, contextual_anchors, user_interactions,
                   context_changes>>
    /\ UNCHANGED <<anchor_vars, cusum_vars, extra_vars>>

\* _save_updated_anchors
SaveAnchors(i) ==
    /\ task[i].pc = "updated"
    /\ contextual_anchors' = [contextual_anchors EXCEPT ![task[i].user] =
                                save_updated_anchors(@, task[i].anchors)]
    /\ task' = [task EXCEPT ![i].pc = IF task[i].drift_result.has_drift
                                      THEN "anchors_saved" ELSE "context_updated"]
    /\ UNCHANGED <<components, closes, drift_detector, usuarios, user_interactions,
                   context_changes, own_cusum>>
    /\ UNCHANGED <<anchor_vars, cusum_vars, extra_vars>>

\* _log_context_change
LogContextChange(i) ==
    /\ task[i].pc = "anchors_saved"
    /\ context_changes' = [context_changes EXCEPT ![task[i].user] =
                                Append(@, task[i].drift_result.drift_type)]
    /\ task' = [task EXCEPT ![i].pc = "context_updated"]
    /\ UNCHANGED <<components, closes, drift_detector, usuarios, contextual_anchors,
                   user_interactions, own_cusum>>
    /\ UNCHANGED <<anchor_vars, cusum_vars, extra_vars>>

\* _save_interaction, after which the response is returned
SaveInteraction(i) ==
    /\ task[i].pc = "context_updated"
    /\ user_interactions' = [user_interactions EXCEPT ![task[i].user] =
                                Append(@, task[i].interaction)]
    /\ task' = [task EXCEPT ![i].pc = "done"]
    /\ UNCHANGED <<components, closes, drift_detector, usuarios, contextual_anchors,
                   context_changes, own_cusum>>
    /\ UNCHANGED <<anchor_vars, cusum_vars, extra_vars>>

Next ==
    \/ CloseSession
    \/ \E i \in Tasks : LoadProfile(i)
    \/ \E i \in Tasks : DetectAndUpdate(i)
    \/ \E i \in Tasks : SaveAnchors(i)
    \/ \E i \in Tasks : LogContextChange(i)
    \/ \E i \in Tasks : SaveInteraction(i)

Spec == Init /\ [][Next]_vars

----------------------------------------------------------------------------
(* SpecVerdict: _update_user_context applied to a profile, an interaction   *)
(* and a verdict of _evaluate_drift_significance                            *)

SignalNames == {"ubicacion_hogar", "preferencias_precio", "patrones_temporales",
                "decision_pattern", "multivariate_outlier"}

\* a drift signal as _detect_context_drift records it, at full strength
FullSignal(s) ==
    [severity |-> Scale, confidence |-> Scale,
     type |-> CASE s = "decision_pattern" -> "preference_shift"
                [] s = "multivariate_outlier" -> "erratic_behavior"
                [] OTHER -> anchor_drift_type(s)]

\* the signals _detect_context_drift can raise for a profile: an anchor needs
\* a value, the CUSUM test 5 interactions and the outlier test 10
PossibleSignals(user_profile) ==
    {s \in SignalNames :
        \/ s \in DOMAIN user_profile.anchors /\ user_profile.anchors[s].current_value # VNone
        \/ s = "decision_pattern" /\ Len(user_profile.recent_interactions) >= 5
        \/ s = "multivariate_outlier" /\ Len(user_profile.recent_interactions) >= 10}

SeasonalResults ==
    {[type |-> "seasonal_change", confidence |-> 800, action |-> "none"],
     [type |-> "context_drift", confidence |-> 800, action |-> "none"]}

InitVerdict ==
    /\ \E depth \in HistoryDepths, interaction \in Interactions,
          seasonal_result \in SeasonalResults :
        LET user_profile == load_or_create_user_profile(
                                depth > 0, InitialDatabase[depth].rows,
                                InitialDatabase[depth].interactions)
        IN \E names \in SUBSET PossibleSignals(user_profile) :
            \E drift_result \in evaluate_drift_significance(
                                    [s \in names |-> FullSignal(s)], seasonal_result) :
                probe = [fn |-> "_update_user_context",
                         anchors |-> user_profile.anchors,
                         interaction |-> interaction,
                         drift_result |-> drift_result,
                         called |-> FALSE,
                         result |-> user_profile.anchors]
    /\ AnchorIdle
    /\ drift_detector = NewDriftDetector
    /\ CusumIdle
    /\ ServiceIdle
    /\ HistoryIdle
    /\ MovingAverageIdle
    /\ CacheIdle

UpdateUserContext ==
    /\ probe.fn = "_update_user_context"
    /\ ~probe.called
    /\ probe' = [probe EXCEPT !.called = TRUE,
                              !.result = update_user_context(probe.anchors,
                                                             probe.interaction,
                                                             probe.drift_result)]
    /\ UNCHANGED <<anchor_vars, drift_detector, cusum_vars, service_vars, history_vars, wma_vars,
                   cache_vars>>

NextVerdict == UpdateUserContext

SpecVerdict == InitVerdict /\ [][NextVerdict]_vars

----------------------------------------------------------------------------
(* SpecStoreFailure: the same calls when statements sent to the database   *)
(* can fail                                                                *)

\* the positions from which the next step of a call is a database statement:
\* profile load, anchor save, context-change log, interaction log
BeforeStore == {"idle", "updated", "anchors_saved", "context_updated"}

\* the statement raises; process_user_interaction catches the exception, logs
\* it and raises it again, so the call ends without a response
StoreFailure(i) ==
    /\ task[i].pc \in BeforeStore
    /\ task[i].pc = "idle" => components /\ \A j \in 1..(i - 1) : task[j].pc # "idle"
    /\ task' = [task EXCEPT ![i].pc = "raised_store_failure"]
    /\ UNCHANGED <<components, closes, drift_detector, usuarios, contextual_anchors,
                   user_interactions, context_changes, own_cusum>>
    /\ UNCHANGED <<anchor_vars, cusum_vars, extra_vars>>

NextStoreFailure == Next \/ \E i \in Tasks : StoreFailure(i)

SpecStoreFailure == Init /\ [][NextStoreFailure]_vars

----------------------------------------------------------------------------
(* SpecSeasonal: SeasonalAnalyzer.distinguish_seasonal_vs_drift applied to *)
(* a behaviour vector and a date                                           *)

\* behaviour vectors: the share of premium products, in hundredths
Behaviors == {[productos_premium |-> 10 * k] : k \in 0..MaxPercent}

InitSeasonal ==
    /\ \E user_behavior \in Behaviors, current_date \in {Morning, Christmas} :
        probe = [fn |-> "distinguish_seasonal_vs_drift",
                 user_behavior |-> user_behavior,
                 current_date |-> current_date,
                 called |-> FALSE,
                 result |-> NoSeasonal]
    /\ AnchorIdle
    /\ drift_detector = NewDriftDetector
    /\ CusumIdle
    /\ ServiceIdle
    /\ HistoryIdle
    /\ MovingAverageIdle
    /\ CacheIdle

DistinguishSeasonalVsDrift ==
    /\ probe.fn = "distinguish_seasonal_vs_drift"
    /\ ~probe.called
    /\ probe' = [probe EXCEPT !.called = TRUE,
                              !.result = distinguish_seasonal_vs_drift(
                                            probe.user_behavior, probe.current_date)]
    /\ UNCHANGED <<anchor_vars, drift_detector, cusum_vars, service_vars, history_vars, wma_vars,
                   cache_vars>>

NextSeasonal == DistinguishSeasonalVsDrift

SpecSeasonal == InitSeasonal /\ [][NextSeasonal]_vars

----------------------------------------------------------------------------
(* SpecMovingAverage: one WeightedMovingAverage while the clock advances    *)

WindowSizes == 1..MaxWindow
Alphas == {3, 10}               \* 0.3 and 1.0
Values == {1, 5}                \* satisfaction scores

InitMovingAverage ==
    /\ \E window_size \in WindowSizes, alpha \in Alphas :
        moving_average = NewMovingAverage(window_size, alpha)
    /\ wall_clock = 0
    /\ average = NoAverage
    /\ updates = 0
    /\ AnchorIdle
    /\ drift_detector = NewDriftDetector
    /\ CusumIdle
    /\ ServiceIdle
    /\ HistoryIdle
    /\ probe = NoProbe
    /\ CacheIdle

\* update(new_value, timestamp) with a timestamp that is not in the future
Update ==
    /\ updates < MaxAverageUpdates
    /\ updates' = updates + 1
    /\ \E new_value \in Values, timestamp \in 0..wall_clock :
        LET r == update(moving_average, new_value, timestamp, wall_clock)
        IN /\ moving_average' = r[1]
           /\ average' = r[2]
    /\ UNCHANGED wall_clock
    /\ UNCHANGED <<anchor_vars, drift_detector, cusum_vars, service_vars, history_vars,
                   probe, cache_vars>>

\* a week passes between two calls
Tick ==
    /\ wall_clock < MaxWeeks
    /\ wall_clock' = wall_clock + 1
    /\ average' = NoAverage
    /\ UNCHANGED <<moving_average, updates>>
    /\ UNCHANGED <<anchor_vars, drift_detector, cusum_vars, service_vars, history_vars,
                   probe, cache_vars>>

NextMovingAverage == Update \/ Tick

SpecMovingAverage == InitMovingAverage /\ [][NextMovingAverage]_vars

----------------------------------------------------------------------------
(* SpecRegion: LocationHasher._generate_region_code applied to the points   *)
(* of a grid around Santiago and Valparaiso                                 *)

RegionLatitudes == {-34000 + 100 * k : k \in 0..MaxGrid}
RegionLongitudes == {-72000 + 100 * k : k \in 0..MaxGrid}

InitRegion ==
    /\ \E lat \in RegionLatitudes, lng \in RegionLongitudes :
        probe = [fn |-> "_generate_region_code", lat |-> lat, lng |-> lng,
                 called |-> FALSE, result |-> "none"]
    /\ AnchorIdle
    /\ drift_detector = NewDriftDetector
    /\ CusumIdle
    /\ ServiceIdle
    /\ HistoryIdle
    /\ MovingAverageIdle
    /\ CacheIdle

GenerateRegionCode ==
    /\ probe.fn = "_generate_region_code"
    /\ ~probe.called
    /\ probe' = [probe EXCEPT !.called = TRUE,
                              !.result = generate_region_code(probe.lat, probe.lng)]
    /\ UNCHANGED <<anchor_vars, drift_detector, cusum_vars, service_vars, history_vars,
                   wma_vars, cache_vars>>

NextRegion == GenerateRegionCode

SpecRegion == InitRegion /\ [][NextRegion]_vars

----------------------------------------------------------------------------
(* SpecHash: LocationHasher.create_location_hash applied to two points at   *)
(* every precision level                                                   *)

\* latitudes in Santiago, none of them a tie of the rounding
HashLatitudes == {x \in {-33440 - 2 * k : k \in 0..MaxSteps} : ~IsTie(x)}
HashLongitudes == {-70652}
PrecisionLevels == DOMAIN precision_configs

NoHashes == [level \in PrecisionLevels |-> <<>>]

InitHash ==
    /\ \E lat1 \in HashLatitudes, lat2 \in HashLatitudes, lng \in HashLongitudes :
        probe = [fn |-> "create_location_hash",
                 point1 |-> <<lat1, lng>>, point2 |-> <<lat2, lng>>,
                 called |-> FALSE,
                 hash1 |-> NoHashes, hash2 |-> NoHashes]
    /\ AnchorIdle
    /\ drift_detector = NewDriftDetector
    /\ CusumIdle
    /\ ServiceIdle
    /\ HistoryIdle
    /\ MovingAverageIdle
    /\ CacheIdle

CreateLocationHash ==
    /\ probe.fn = "create_location_hash"
    /\ ~probe.called
    /\ probe' = [probe EXCEPT
            !.called = TRUE,
            !.hash1 = [level \in PrecisionLevels |->
                        create_location_hash(probe.point1[1], probe.point1[2], level).hash],
            !.hash2 = [level \in PrecisionLevels |->
                        create_location_hash(probe.point2[1], probe.point2[2], level).hash]]
    /\ UNCHANGED <<anchor_vars, drift_detector, cusum_vars, service_vars, history_vars,
                   wma_vars, cache_vars>>

NextHash == CreateLocationHash

SpecHash == InitHash /\ [][NextHash]_vars

----------------------------------------------------------------------------
(* SpecSummary: the first process_user_interaction call of a new user, made *)
(* for each of two interactions that differ in their coordinates only, and  *)
(* the get_user_context_summary call that follows it                       *)

\* coordinates in hundredths of a degree, none of them a tie of the rounding
SummaryLocations == {<<-3316, -7052>>, <<-3308, -7052>>, <<-3342, -7062>>,
                     <<-3348, -7058>>}

\* what a first call with this interaction hands out and writes to the cache
FirstCall(interaction) ==
    LET user_profile == create_new_user_profile
        detection == detect_context_drift(interaction, user_profile,
                                          NewDriftDetector, FALSE)
        verdicts == evaluate_drift_significance(detection.drift_signals,
                                                detection.seasonal_result)
        saved(anchors) == load_full_user_context(
                            save_updated_anchors(NoRows, anchors), <<interaction>>).anchors
    IN [primary_location |->
            UNION {extract_primary_location(
                        update_user_context(user_profile.anchors, interaction, v)) :
                   v \in verdicts},
        summary_location |->
            UNION {extract_primary_location(
                        saved(update_user_context(user_profile.anchors, interaction, v))) :
                   v \in verdicts},
        cache_key |-> create_interaction_hash(interaction),
        cache_entry |-> new_cache_entry(interaction, 0)]

NoFirstCall == [primary_location |-> {}, summary_location |-> {},
                cache_key |-> create_interaction_hash(NoInteraction),
                cache_entry |-> new_cache_entry(NoInteraction, 0)]

InitSummary ==
    /\ \E interaction \in Interactions, here \in SummaryLocations,
          there \in SummaryLocations :
        probe = [fn |-> "process_user_interaction",
                 first |-> [interaction EXCEPT !.ubicacion = here],
                 second |-> [interaction EXCEPT !.ubicacion = there],
                 called |-> FALSE,
                 result1 |-> NoFirstCall,
                 result2 |-> NoFirstCall]
    /\ AnchorIdle
    /\ drift_detector = NewDriftDetector
    /\ CusumIdle
    /\ ServiceIdle
    /\ HistoryIdle
    /\ MovingAverageIdle
    /\ CacheIdle

ProcessUserInteraction ==
    /\ probe.fn = "process_user_interaction"
    /\ ~probe.called
    /\ probe' = [probe EXCEPT !.called = TRUE,
                              !.result1 = FirstCall(probe.first),
                              !.result2 = FirstCall(probe.second)]
    /\ UNCHANGED <<anchor_vars, drift_detector, cusum_vars, service_vars, history_vars,
                   wma_vars, cache_vars>>

NextSummary == ProcessUserInteraction

SpecSummary == InitSummary /\ [][NextSummary]_vars

----------------------------------------------------------------------------
(* SpecCache: process_user_interaction calls from _update_anonymous_cache   *)
(* on, running concurrently; a call gives up control at its SELECT and at   *)
(* its UPDATE or INSERT                                                     *)

CacheTasks == 1..MaxCacheCalls

\* interactions with two cache keys; the timestamp is not part of the key
CacheInteractions ==
    {Interaction(p, Home, "ahorro", t) : p \in {Staples, Treats},
                                         t \in {Morning, Christmas}}

InFlight(i) == cache_task[i].pc = "selected"

InitCache ==
    /\ anonymous_cache = NoCache
    /\ cache_task = [i \in CacheTasks |-> IdleCacheTask]
    /\ today = 0
    /\ cached = NoCache
    /\ AnchorIdle
    /\ drift_detector = NewDriftDetector
    /\ CusumIdle
    /\ ServiceIdle
    /\ HistoryIdle
    /\ probe = NoProbe
    /\ MovingAverageIdle

\* _create_interaction_hash and the SELECT by query_hash
SelectCacheEntry(i) ==
    /\ cache_task[i].pc = "idle"
    /\ \A j \in 1..(i - 1) : cache_task[j].pc # "idle"
    /\ \E interaction \in CacheInteractions :
        LET interaction_hash == create_interaction_hash(interaction)
            before == IF interaction_hash \in DOMAIN cached
                      THEN cached[interaction_hash].interactions ELSE 0
        IN /\ cache_task' = [cache_task EXCEPT ![i] =
                    [pc |-> "selected", interaction |-> interaction,
                     existing |-> interaction_hash \in DOMAIN anonymous_cache]]
           /\ cached' = [key \in DOMAIN cached \cup {interaction_hash} |->
                            IF key = interaction_hash
                            THEN [interactions |-> before + 1, last_day |-> today]
                            ELSE cached[key]]
    /\ UNCHANGED <<anonymous_cache, today>>
    /\ UNCHANGED <<anchor_vars, drift_detector, cusum_vars, service_vars, history_vars,
                   probe, wma_vars>>

\* the UPDATE of the row found, or the INSERT of a new row and the commit.
\* query_hash is unique: the INSERT of a hash that another call has inserted
\* in the meantime raises IntegrityError, which process_user_interaction
\* raises to its caller.
WriteCacheEntry(i) ==
    /\ cache_task[i].pc = "selected"
    /\ LET interaction == cache_task[i].interaction
           interaction_hash == create_interaction_hash(interaction)
       IN IF cache_task[i].existing
          THEN /\ anonymous_cache' =
                    [anonymous_cache EXCEPT ![interaction_hash] =
                        [@ EXCEPT !.usage_count = @ + 1, !.expires_at = today + 30]]
               /\ cache_task' = [cache_task EXCEPT ![i].pc = "done"]
          ELSE IF interaction_hash \in DOMAIN anonymous_cache
          THEN /\ cache_task' = [cache_task EXCEPT ![i].pc = "raised"]
               /\ UNCHANGED anonymous_cache
          ELSE /\ anonymous_cache' =
                    [key \in DOMAIN anonymous_cache \cup {interaction_hash} |->
                        IF key = interaction_hash
                        THEN new_cache_entry(interaction, today)
                        ELSE anonymous_cache[key]]
               /\ cache_task' = [cache_task EXCEPT ![i].pc = "done"]
    /\ UNCHANGED <<today, cached>>
    /\ UNCHANGED <<anchor_vars, drift_detector, cusum_vars, service_vars, history_vars,
                   probe, wma_vars>>

\* a day passes while no call is under way
NextDay ==
    /\ today < MaxCacheDays
    /\ \A i \in CacheTasks : ~InFlight(i)
    /\ today' = today + 1
    /\ UNCHANGED <<anonymous_cache, cache_task, cached>>
    /\ UNCHANGED <<anchor_vars, drift_detector, cusum_vars, service_vars, history_vars,
                   probe, wma_vars>>

NextCache ==
    \/ \E i \in CacheTasks : SelectCacheEntry(i)
    \/ \E i \in CacheTasks : WriteCacheEntry(i)
    \/ NextDay

SpecCache == InitCache /\ [][NextCache]_vars

----------------------------------------------------------------------------
(* SpecOptimize: POST /api/optimize, routers/gpt_router.py *)

\* a requested product name: its word characters and whether white space
\* surrounds them (OptimizeRequest admits [\w\s-]+ only)
ProductName(word, padded) == [word |-> word, padded |-> padded]

\* sanitize_text: nothing of an admitted name is removed but the surrounding
\* white space, and escape leaves word characters as they are
sanitize_text(value) == value.word

\* _sanitize_and_validate: the sanitized text, or 422 when nothing is left
sanitize_and_validate(value) ==
    IF sanitize_text(value) = ""
    THEN [raised |-> TRUE, text |-> ""]
    ELSE [raised |-> FALSE, text |-> sanitize_text(value)]

NoOptimization == [status_code |-> 0, db_calls |-> <<>>, gpt_calls |-> <<>>,
                   products |-> <<>>]

\* optimize_shopping_list: the calls it makes of search_products_in_db and
\* search_products_with_gpt, what it hands to optimize_purchases, and its
\* status given the outcome of optimize_purchases
optimize_shopping_list(request, optimized) ==
    LET sanitized == [k \in 1..Len(request) |-> sanitize_and_validate(request[k])]
    IN IF \E k \in 1..Len(request) : sanitized[k].raised
       THEN [NoOptimization EXCEPT !.status_code = 422]
       ELSE [status_code |-> IF optimized THEN 200 ELSE 500,
             db_calls |-> <<>>,
             gpt_calls |-> <<>>,
             products |-> [k \in 1..Len(request) |->
                            [nombre |-> sanitized[k].text, source |-> "request"]]]

ProductNames == {ProductName("apple", FALSE), ProductName("banana", FALSE),
                 ProductName("carrot", TRUE), ProductName("", TRUE)}

RECURSIVE Requests(_)
Requests(n) ==
    IF n = 0 THEN {<<>>}
    ELSE Requests(n - 1) \cup
         {Append(r, p) : r \in {q \in Requests(n - 1) : Len(q) = n - 1},
                         p \in ProductNames}

InitOptimize ==
    /\ \E request \in Requests(MaxProducts),
          in_db \in SUBSET {"apple", "banana", "carrot"} :
        probe = [fn |-> "optimize_shopping_list",
                 request |-> request,
                 in_db |-> in_db,
                 called |-> FALSE,
                 result |-> NoOptimization]
    /\ AnchorIdle
    /\ drift_detector = NewDriftDetector
    /\ CusumIdle
    /\ ServiceIdle
    /\ HistoryIdle
    /\ MovingAverageIdle
    /\ CacheIdle

OptimizeShoppingList ==
    /\ probe.fn = "optimize_shopping_list"
    /\ ~probe.called
    /\ \E optimized \in BOOLEAN :
        probe' = [probe EXCEPT !.called = TRUE,
                               !.result = optimize_shopping_list(probe.request, optimized)]
    /\ UNCHANGED <<anchor_vars, drift_detector, cusum_vars, service_vars, history_vars,
                   wma_vars, cache_vars>>

NextOptimize == OptimizeShoppingList

SpecOptimize == InitOptimize /\ [][NextOptimize]_vars

----------------------------------------------------------------------------
(* SpecDeviation: _calculate_anchor_deviation of the patrones_temporales    *)
(* anchor, whose value is the one a first interaction at the preferred hour *)
(* has left                                                                 *)

Hours == 0..23

\* the anchor after a first interaction at this hour
TemporalAnchor(preferred_hour) ==
    ServiceAnchor("patrones_temporales",
                  extract_anchor_value_from_interaction(
                      [HabitualInteraction EXCEPT !.timestamp.hour = preferred_hour],
                      "patrones_temporales"),
                  500, 1)

InitDeviation ==
    /\ \E hour \in Hours, preferred_hour \in Hours :
        probe = [fn |-> "calculate_anchor_deviation",
                 interaction |-> [HabitualInteraction EXCEPT !.timestamp.hour = hour],
                 preferred_hour |-> preferred_hour,
                 called |-> FALSE,
                 deviation |-> 0]
    /\ AnchorIdle
    /\ drift_detector = NewDriftDetector
    /\ CusumIdle
    /\ ServiceIdle
    /\ HistoryIdle
    /\ MovingAverageIdle
    /\ CacheIdle

CalculateAnchorDeviation ==
    /\ probe.fn = "calculate_anchor_deviation"
    /\ ~probe.called
    /\ probe' = [probe EXCEPT !.called = TRUE,
                              !.deviation = calculate_anchor_deviation(
                                    probe.interaction,
                                    TemporalAnchor(probe.preferred_hour))]
    /\ UNCHANGED <<anchor_vars, drift_detector, cusum_vars, service_vars, history_vars,
                   wma_vars, cache_vars>>

NextDeviation == CalculateAnchorDeviation

SpecDeviation == InitDeviation /\ [][NextDeviation]_vars

----------------------------------------------------------------------------
(* SpecPattern: SeasonalAnalyzer._is_pattern_active on its own *)

DaysIn(month) ==
    IF month = 2 THEN 28 ELSE IF month \in {4, 6, 9, 11} THEN 30 ELSE 31

\* the timestamps given: days around the ends of every period, at midnight
\* and during the day
Dates ==
    {[month |-> m, day |-> d, hour |-> h, weekday |-> 0] :
        m \in 1..12, d \in {1, 5, 6, 14, 15, 20, 21, 24, 25, 28, 30, 31},
        h \in {0, 10, 23}}

InitPattern ==
    /\ \E name \in DOMAIN seasonal_patterns,
          current_date \in {d \in Dates : d.day <= DaysIn(d.month)} :
        probe = [fn |-> "is_pattern_active",
                 pattern |-> name,
                 current_date |-> current_date,
                 called |-> FALSE,
                 active |-> FALSE]
    /\ AnchorIdle
    /\ drift_detector = NewDriftDetector
    /\ CusumIdle
    /\ ServiceIdle
    /\ HistoryIdle
    /\ MovingAverageIdle
    /\ CacheIdle

IsPatternActive ==
    /\ probe.fn = "is_pattern_active"
    /\ ~probe.called
    /\ probe' = [probe EXCEPT !.called = TRUE,
                              !.active = is_pattern_active(
                                    seasonal_patterns[probe.pattern].period,
                                    probe.current_date)]
    /\ UNCHANGED <<anchor_vars, drift_detector, cusum_vars, service_vars, history_vars,
                   wma_vars, cache_vars>>

NextPattern == IsPatternActive

SpecPattern == InitPattern /\ [][NextPattern]_vars

----------------------------------------------------------------------------
(* SpecPageHinkley: DriftDetector.page_hinkley_test on its own, with the    *)
(* default delta of 0.1                                                     *)

default_delta == Scale \div 10

StreamValues == {-6 * Scale, -3 * Scale, 3 * Scale, 6 * Scale}
Thresholds == {2 * Scale, 5 * Scale}

RECURSIVE Streams(_)
Streams(n) ==
    IF n = 0 THEN {<<>>}
    ELSE Streams(n - 1) \cup
         {Append(s, v) : s \in {t \in Streams(n - 1) : Len(t) = n - 1},
                         v \in StreamValues}

NoPageHinkley == [changes_detected |-> FALSE, change_points |-> <<>>]

InitPageHinkley ==
    /\ \E data_stream \in Streams(MaxStream), lambda_threshold \in Thresholds :
        probe = [fn |-> "page_hinkley_test",
                 data_stream |-> data_stream,
                 lambda_threshold |-> lambda_threshold,
                 called |-> FALSE,
                 result |-> NoPageHinkley]
    /\ AnchorIdle
    /\ drift_detector = NewDriftDetector
    /\ CusumIdle
    /\ ServiceIdle
    /\ HistoryIdle
    /\ MovingAverageIdle
    /\ CacheIdle

PageHinkleyTest ==
    /\ probe.fn = "page_hinkley_test"
    /\ ~probe.called
    /\ probe' = [probe EXCEPT !.called = TRUE,
                              !.result = page_hinkley_test(probe.data_stream, default_delta,
                                                           probe.lambda_threshold)]
    /\ UNCHANGED <<anchor_vars, drift_detector, cusum_vars, service_vars, history_vars,
                   wma_vars, cache_vars>>

NextPageHinkley == PageHinkleyTest

SpecPageHinkley == InitPageHinkley /\ [][NextPageHinkley]_vars

----------------------------------------------------------------------------
(* Properties of the persisted anchor *)

\* C6: after any sequence of writes to an anchor's confidence (update_value
\* with any value and any confidence_boost, apply_temporal_decay with any
\* number of days) the confidence lies within [0, 1].
ConfidenceWithinUnitInterval ==
    anchor.confidence_score >= 0 /\ anchor.confidence_score <= Scale

\* C7: is_stable goes from False to True only in an update_value call after
\* which update_count >= 5 and confidence_score >= stability_threshold.
StableOnlyByQualifiedUpdate ==
    [][(~anchor.is_stable /\ anchor'.is_stable) =>
          /\ last_op'.name = "update_value"
          /\ anchor'.update_count >= 5
          /\ anchor'.confidence_score >= anchor'.stability_threshold]_vars

\* the fourth update of a new anchor has just made it stable
BecameStable ==
    /\ anchor.is_stable
    /\ last_op.name = "update_value"
    /\ anchor.update_count = 5

\* C8: is_stable goes from True to False only in apply_temporal_decay, with
\* days > 0 and the decayed confidence below half the stability threshold;
\* update_value and detect_drift never clear it.
StableClearedOnlyByDecay ==
    [][(anchor.is_stable /\ ~anchor'.is_stable) =>
          /\ last_op'.name = "apply_temporal_decay"
          /\ last_op'.days > 0
          /\ 2 * anchor'.confidence_score < anchor'.stability_threshold]_vars

\* an anchor whose last update had made it stable was cleared by a decay
ClearedByDecay ==
    /\ ~anchor.is_stable
    /\ last_op.name = "apply_temporal_decay"
    /\ Len(anchor.historical_values) >= 4
    /\ anchor.historical_values[Len(anchor.historical_values)].confidence
           >= anchor.stability_threshold

\* C9: a second apply_temporal_decay for the same elapsed days, with no
\* other operation in between, leaves confidence_score and is_stable as the
\* first run left them.
DecayIsIdempotent ==
    [][(/\ last_op.name = "apply_temporal_decay"
        /\ last_op'.name = "apply_temporal_decay"
        /\ last_op'.days = last_op.days
        /\ anchor.confidence_score \in 0..Scale) =>
          /\ anchor'.confidence_score = anchor.confidence_score
          /\ anchor'.is_stable = anchor.is_stable]_vars

\* C10: detect_drift on an anchor that has no value yet or is not stable
\* returns drift_detected = False with reason anchor_not_stable and leaves
\* the anchor unchanged.
DetectOnUnstableIsNeutral ==
    [][(/\ last_op'.name = "detect_drift"
        /\ (anchor.anchor_value = Dict(NoKeys) \/ ~anchor.is_stable)) =>
          /\ ret'.drift_detected = FALSE
          /\ ret'.reason = "anchor_not_stable"
          /\ anchor' = anchor]_vars

\* detect_drift has just answered for an anchor that has a value but is
\* not stable
DetectedOnUnstable ==
    /\ last_op.name = "detect_drift"
    /\ ret.reason = "anchor_not_stable"
    /\ Truthy(anchor.anchor_value)
    /\ ~anchor.is_stable
    /\ anchor.drift_alerts = <<>>

----------------------------------------------------------------------------
(* Properties of the drift verdict *)

\* the positions of a call at which its verdict is known
Decided == {"updated", "anchors_saved", "context_updated", "done"}

\* C1: whenever fewer than two drift signals were collected the verdict has
\* has_drift False, whatever the seasonal analysis says; put the other way
\* round, a verdict with has_drift True rests on at least two signals.
FewSignalsNoDrift ==
    \A i \in Tasks :
        task[i].pc \in Decided =>
            /\ Cardinality(DOMAIN task[i].drift_signals) < 2
                    => ~task[i].drift_result.has_drift
            /\ task[i].drift_result.has_drift
                    => Cardinality(DOMAIN task[i].drift_signals) >= 2

\* a call that collected exactly one signal outside any season and was not
\* declared a drift
OneSignalNoDrift ==
    \E i \in Tasks :
        /\ task[i].pc \in Decided
        /\ Cardinality(DOMAIN task[i].drift_signals) = 1
        /\ task[i].seasonal_result.type = "context_drift"
        /\ ~task[i].drift_result.has_drift

\* C2: when the seasonal analysis classifies the interaction as
\* seasonal_change, the verdict is has_drift False with type SEASONAL_CHANGE,
\* no affected anchors and action adjust_seasonal_expectations, however many
\* drift signals were collected.
SeasonalChangeIsNotDrift ==
    \A i \in Tasks :
        (task[i].pc \in Decided /\ task[i].seasonal_result.type = "seasonal_change") =>
            /\ ~task[i].drift_result.has_drift
            /\ task[i].drift_result.drift_type = "seasonal_change"
            /\ task[i].drift_result.affected_anchors = {}
            /\ task[i].drift_result.recommended_action = "adjust_seasonal_expectations"

\* a seasonal_change verdict reached with two or more signals collected
SeasonalDespiteSignals ==
    \E i \in Tasks :
        /\ task[i].pc \in Decided
        /\ task[i].seasonal_result.type = "seasonal_change"
        /\ Cardinality(DOMAIN task[i].drift_signals) >= 2
        /\ task[i].drift_result.drift_type = "seasonal_change"

----------------------------------------------------------------------------
(* Properties of the CUSUM test *)

\* C3: successive cusum_test calls on one DriftDetector accumulate: each call
\* leaves positive = max(0, previous positive + deviation - sensitivity/2) and
\* negative = max(0, previous negative - deviation - sensitivity/2), reports a
\* change exactly when one of them exceeds 3.0, with confidence
\* min(1, max(positive, negative) / 3.0).  With five "ahorro" in the history and
\* new decision "conveniencia", a fresh detector ends at 1.75 without a change
\* and the identical second call at 3.5 with a change of confidence 1.0.
CusumAccumulates ==
    [][(cusum_count' = cusum_count + 1 /\ cusum_call'.historical_decisions # <<>>) =>
        LET history == cusum_call'.historical_decisions
            n == Len(history)
            encoded == [i \in 1..n |-> decision_encoding(history[i])]
            deviation == ((decision_encoding(cusum_call'.new_decision) * n
                            - SumSeq(encoded)) * CusumUnit) \div n
            half == cusum_call'.sensitivity \div 2
            positive == Max(0, drift_detector.cusum_positive + deviation - half)
            negative == Max(0, drift_detector.cusum_negative - deviation - half)
            scenario == /\ history = FiveSavings
                        /\ cusum_call'.new_decision = "conveniencia"
                        /\ cusum_call'.sensitivity = default_sensitivity
        IN /\ drift_detector'.cusum_positive = positive
           /\ drift_detector'.cusum_negative = negative
           /\ cusum_call'.result.change_detected
                = (positive > 3 * CusumUnit \/ negative > 3 * CusumUnit)
           /\ cusum_call'.result.confidence
                = Min(Scale, (Max(positive, negative) * Scale) \div (3 * CusumUnit))
           /\ (scenario /\ drift_detector = NewDriftDetector) =>
                /\ drift_detector'.cusum_positive = (7 * CusumUnit) \div 4
                /\ ~cusum_call'.result.change_detected
           /\ (scenario /\ drift_detector = [cusum_positive |-> (7 * CusumUnit) \div 4,
                                             cusum_negative |-> 0]) =>
                /\ drift_detector'.cusum_positive = (7 * CusumUnit) \div 2
                /\ cusum_call'.result.change_detected
                /\ cusum_call'.result.confidence = Scale
      ]_vars

\* the second identical call of the scenario has just reported the change
SecondShiftDetected ==
    /\ cusum_count = 2
    /\ cusum_call.historical_decisions = FiveSavings
    /\ cusum_call.new_decision = "conveniencia"
    /\ drift_detector.cusum_positive = (7 * CusumUnit) \div 2
    /\ cusum_call.result.change_detected
    /\ cusum_call.result.confidence = Scale

\* C4: the CUSUM outcome of a user's interaction (change detected or not) is
\* the one that user's own interactions produce, whatever other users submit
\* before or in between.
CusumIndependentOfOtherUsers ==
    \A i \in Tasks :
        task[i].cusum_result.called =>
            task[i].cusum_result.change_detected = task[i].cusum_alone.change_detected

----------------------------------------------------------------------------
(* Properties of concurrent calls *)

\* C5: two calls for the same user never interleave their load and save of the
\* profile: once both have returned, every anchor both of them updated has had
\* its update_count advanced twice and the database holds the later of the two.
ConcurrentUpdatesBothPersisted ==
    \A i, j \in Tasks :
        (i # j /\ task[i].pc = "done" /\ task[j].pc = "done"
               /\ task[i].user = task[j].user) =>
            \A n \in task[i].updated \cap task[j].updated :
                /\ task[i].anchors[n].update_count # task[j].anchors[n].update_count
                /\ contextual_anchors[task[i].user][n].update_count
                    = Max(task[i].anchors[n].update_count, task[j].anchors[n].update_count)

----------------------------------------------------------------------------
(* Bounded histories of the anchor *)

HistoryValues ==
    [i \in 1..Len(anchor.historical_values) |-> anchor.historical_values[i].value]

AlertValues ==
    [i \in 1..Len(anchor.drift_alerts) |-> anchor.drift_alerts[i].new_value]

\* C11: after any sequence of update_value and detect_drift calls,
\* historical_values holds at most 50 entries, the values of the most recent
\* update_value calls in call order, and drift_alerts holds at most 10
\* entries, the most recent detected drifts in order.
HistoriesAreRecentWindows ==
    /\ Len(anchor.historical_values) <= 50
    /\ HistoryValues = LastN(update_log, 50)
    /\ Len(anchor.drift_alerts) <= 10
    /\ AlertValues = LastN(alert_log, 10)

\* more than 50 updates and more than 10 detected drifts have happened
OldestEntriesDropped ==
    /\ Len(update_log) > 50
    /\ Len(alert_log) > 10
    /\ Len(anchor.historical_values) = 50
    /\ Len(anchor.drift_alerts) = 10

----------------------------------------------------------------------------
(* Anchor updates after the verdict *)

\* per drift type: <<blend ratio, confidence afterwards>>
StrategyOfType ==
    [location_drift |-> <<800, 300>>, preference_shift |-> <<600, 500>>,
     temporal_change |-> <<400, 600>>, erratic_behavior |-> <<100, 800>>]

\* old blended with new, or new itself when the anchor had no value yet
Blended(old, new, ratio) ==
    IF old = VNone THEN new ELSE blend_anchor_values(old, new, ratio)

\* the anchors `after` follow the verdict reached on `interaction`
FollowsVerdict(before, after, interaction, verdict) ==
    \A n \in DOMAIN before :
        LET new_value == extract_anchor_value_from_interaction(interaction, n)
            a == before[n]
            b == after[n]
        IN IF verdict.has_drift
           THEN IF n \notin verdict.affected_anchors THEN b = a
                ELSE new_value # VNone =>
                        /\ b.current_value =
                              Blended(a.current_value, new_value,
                                      StrategyOfType[verdict.drift_type][1])
                        /\ b.confidence = StrategyOfType[verdict.drift_type][2]
           ELSE new_value # VNone =>
                    b.current_value = Blended(a.current_value, new_value, a.decay_rate)

\* C12: anchor updates follow the verdict: with a drift of type T each
\* affected anchor that has an extractable value is blended with T's ratio
\* and gets T's confidence (location 0.8 -> 0.3, preference shift 0.6 -> 0.5,
\* temporal 0.4 -> 0.6, erratic 0.1 -> 0.8) and the anchors not affected are
\* unchanged; with no drift every anchor that has an extractable value is
\* blended with its own decay_rate.
UpdatesFollowVerdict ==
    (probe.fn = "_update_user_context" /\ probe.called) =>
        FollowsVerdict(probe.anchors, probe.result, probe.interaction,
                       probe.drift_result)

\* a drift of the rarest type was applied: an affected anchor was blended
\* while another anchor with an extractable value was not affected
ErraticDriftApplied ==
    /\ probe.fn = "_update_user_context"
    /\ probe.called
    /\ probe.drift_result.has_drift
    /\ probe.drift_result.drift_type = "erratic_behavior"
    /\ \E n \in DOMAIN probe.anchors \cap probe.drift_result.affected_anchors :
          /\ probe.anchors[n].current_value # VNone
          /\ probe.result[n] # probe.anchors[n]
    /\ \E n \in DOMAIN probe.anchors \ probe.drift_result.affected_anchors :
          extract_anchor_value_from_interaction(probe.interaction, n) # VNone

----------------------------------------------------------------------------
(* Failures of the store *)

\* C13: fail open: a store operation that fails during
\* process_user_interaction is logged and suppressed at the engine boundary,
\* the call returns a response with a neutral drift_info; no call ends by
\* raising the failure to its caller.
StoreFailureIsSuppressed ==
    \A i \in Tasks : task[i].pc # "raised_store_failure"

----------------------------------------------------------------------------
(* The 0.7 cut of the seasonal analysis *)

\* the call under test has returned and its best match score was score
SeasonalScored(score) ==
    /\ probe.fn = "distinguish_seasonal_vs_drift"
    /\ probe.called
    /\ seasonal_explanation_score(probe.user_behavior, probe.current_date) = score

\* C14: at the 0.7 cut of distinguish_seasonal_vs_drift a best match score
\* of 0.71 gives seasonal_change and a best match score of 0.69 gives
\* context_drift.
BelowCutIsContextDrift ==
    /\ SeasonalScored(710) => probe.result.type = "seasonal_change"
    /\ SeasonalScored(690) => probe.result.type = "context_drift"

\* C14, amended: a best match score of 0.71 gives seasonal_change and a best
\* match score of 0.69 gives mixed_seasonal_drift; context_drift is the
\* answer only for scores of 0.4 and below.
BelowCutIsMixed ==
    /\ SeasonalScored(710) => probe.result.type = "seasonal_change"
    /\ SeasonalScored(690) => probe.result.type = "mixed_seasonal_drift"
    /\ (probe.fn = "distinguish_seasonal_vs_drift" /\ probe.called
            /\ probe.result.type = "context_drift")
        => seasonal_explanation_score(probe.user_behavior, probe.current_date) <= 400

\* a vector scoring 0.69 during an active pattern has been classified
ScoredJustBelowCut == SeasonalScored(690)

----------------------------------------------------------------------------
(* The moving average *)

WindowValues == {moving_average.data_points[i].value :
                    i \in 1..Len(moving_average.data_points)}

\* C15: for every window size, alpha and sequence of update calls the value
\* update returns lies between the minimum and the maximum of the values in
\* the window; a window holding only the value v returns exactly v.
AverageWithinWindow ==
    average # NoAverage =>
        \A v \in WindowValues :
            /\ (\A w \in WindowValues : v <= w) => v * average.den <= average.num
            /\ (\A w \in WindowValues : v >= w) => average.num <= v * average.den

\* C16: the age weight applied to a buffered entry when an average is
\* computed comes from the entry's age at that time (now minus its
\* timestamp), not from its age at insertion: an older entry is re-weighted
\* on every later update.
WeightsFollowCurrentAge ==
    average # NoAverage =>
        \A i \in 1..Len(moving_average.data_points) :
            moving_average.data_points[i].age_weight =
                calculate_age_weight(moving_average.data_points[i].timestamp, wall_clock)

----------------------------------------------------------------------------
(* Region codes and location hashes *)

\* the bounding boxes, in thousandths of a degree
InBox(lat, lng, south, north, west, east) ==
    south <= lat /\ lat <= north /\ west <= lng /\ lng <= east

InOriente(lat, lng) == InBox(lat, lng, -33500, -33200, -70700, -70400)
InCentro(lat, lng) == InBox(lat, lng, -33700, -33200, -70900, -70400)
InValparaiso(lat, lng) == InBox(lat, lng, -33000, -32500, -71800, -71200)

\* C18: the region code is decided by the point's bounding box: a coordinate
\* inside the Santiago-oriente box is RM_ORIENTE, inside the Santiago-centro
\* box RM_CENTRO, inside the Valparaiso-centro box VAL_CENTRO, and in none of
\* the boxes OTHER.
RegionCodeFollowsBox ==
    (probe.fn = "_generate_region_code" /\ probe.called) =>
        /\ InOriente(probe.lat, probe.lng) => probe.result = "RM_ORIENTE"
        /\ (InCentro(probe.lat, probe.lng) /\ ~InOriente(probe.lat, probe.lng))
                => probe.result = "RM_CENTRO"
        /\ InValparaiso(probe.lat, probe.lng) => probe.result = "VAL_CENTRO"
        /\ (~InCentro(probe.lat, probe.lng) /\ ~InValparaiso(probe.lat, probe.lng))
                => probe.result = "OTHER"

\* C19: create_location_hash is deterministic and coarsening only merges:
\* identical (lat, lon, precision) give the identical hash, and two points with
\* the same hash at a fine level have the same hash at every coarser level
\* (high < medium < low).
CoarseningOnlyMerges ==
    (probe.fn = "create_location_hash" /\ probe.called) =>
        /\ probe.point1 = probe.point2 =>
                \A level \in PrecisionLevels : probe.hash1[level] = probe.hash2[level]
        /\ \A fine \in PrecisionLevels, coarse \in PrecisionLevels :
                (Finer(fine, coarse) /\ probe.hash1[fine] = probe.hash2[fine])
                    => probe.hash1[coarse] = probe.hash2[coarse]

\* the region code of an interaction's coordinates, as the engine stores it
RegionOf(interaction) ==
    create_location_hash(10 * interaction.ubicacion[1], 10 * interaction.ubicacion[2],
                         "medium").region_code

\* C17: outside the engine location appears only as a region code: the
\* primary_location of the summaries that process_user_interaction and
\* get_user_context_summary return, the cache key and the cache entry are
\* identical for two inputs that differ only in raw coordinates with the same
\* region code.
OnlyRegionLeavesEngine ==
    (probe.fn = "process_user_interaction" /\ probe.called
        /\ RegionOf(probe.first) = RegionOf(probe.second)) =>
            /\ probe.result1.cache_key = probe.result2.cache_key
            /\ probe.result1.cache_entry = probe.result2.cache_entry
            /\ probe.result1.primary_location = probe.result2.primary_location
            /\ probe.result1.summary_location = probe.result2.summary_location

----------------------------------------------------------------------------
(* The anonymous cache *)

\* C20: the anonymous cache is increment-or-insert per key: after any
\* interleaving of k >= 1 processed interactions with the same key there is
\* exactly one entry for the key, its usage_count is k and its expires_at is
\* 30 days after the most recent of them.
CacheCountsInteractions ==
    \A key \in DOMAIN cached :
        (\A i \in CacheTasks :
            InFlight(i) => create_interaction_hash(cache_task[i].interaction) # key)
        => /\ key \in DOMAIN anonymous_cache
           /\ anonymous_cache[key].usage_count = cached[key].interactions
           /\ anonymous_cache[key].expires_at = cached[key].last_day + 30

----------------------------------------------------------------------------
\* C21: every anchor of a profile, in memory (the anchors a call created by
\* default or loaded) or in the contextual_anchors table, has a name
\* validate_anchor_name accepts.
AnchorNamesInVocabulary ==
    /\ \A u \in Users : \A name \in DOMAIN contextual_anchors[u] :
            validate_anchor_name(name)
    /\ \A i \in Tasks : \A name \in DOMAIN task[i].anchors : validate_anchor_name(name)

----------------------------------------------------------------------------
\* the per-product results of the claimed lookup: the database result where
\* the database has the product, the GPT result otherwise
LookedUp(words, in_db) ==
    [k \in 1..Len(words) |->
        [nombre |-> words[k], source |-> IF words[k] \in in_db THEN "db" ELSE "gpt"]]

\* the subsequence of words the database does not have
RECURSIVE Missing(_, _)
Missing(words, in_db) ==
    IF words = <<>> THEN <<>>
    ELSE IF Head(words) \in in_db THEN Missing(Tail(words), in_db)
         ELSE <<Head(words)>> \o Missing(Tail(words), in_db)

\* C22: a successful POST /api/optimize has looked every requested product
\* up in the database in request order, fetched exactly the products the
\* database does not have through GPT, and handed the optimizer one result
\* per product in request order.
OptimizerGetsLookedUpProducts ==
    (probe.fn = "optimize_shopping_list" /\ probe.called
        /\ probe.result.status_code = 200)
    => LET words == [k \in 1..Len(probe.request) |-> sanitize_text(probe.request[k])]
       IN /\ probe.result.db_calls = words
          /\ probe.result.gpt_calls = Missing(words, probe.in_db)
          /\ probe.result.products = LookedUp(words, probe.in_db)

----------------------------------------------------------------------------
\* C23: the deviation from the patrones_temporales anchor is the circular
\* distance between the interaction's hour and the preferred hour,
\* min(|h - p|, 24 - |h - p|) / 12, and lies within [0, 1].
TemporalDeviationIsCircular ==
    (probe.fn = "calculate_anchor_deviation" /\ probe.called)
    => LET hour_diff == Abs(probe.interaction.timestamp.hour - probe.preferred_hour)
       IN /\ probe.deviation = (Min(hour_diff, 24 - hour_diff) * Scale) \div 12
          /\ probe.deviation \in 0..Scale

----------------------------------------------------------------------------
\* the calendar date lies in the pattern's range, end days included
DateInRange(name, date) ==
    LET day_of_year == date.month * 100 + date.day IN
    CASE name = "navidad" -> 1215 <= day_of_year /\ day_of_year <= 1231
      [] name = "verano" -> day_of_year >= 1221 \/ day_of_year <= 320
      [] name = "inicio_mes" -> date.day \in 1..5
      [] name = "fin_mes" -> date.day \in 25..31

\* C24: a calendar pattern is active for exactly the timestamps whose date
\* lies in its range, both end days included, at any time of day.
PatternActiveOnItsDates ==
    (probe.fn = "is_pattern_active" /\ probe.called)
    => (probe.active <=> DateInRange(probe.pattern, probe.current_date))

----------------------------------------------------------------------------
\* the sum of value - delta over the indices first..last of the probed stream
\* (indices count from 0)
SumSince(first, last) ==
    SumOver([k \in first..last |-> probe.data_stream[k + 1] - default_delta],
            first..last)

\* the index of the last change point emitted before index i, or -1
PreviousChangePoint(i) ==
    LET earlier == {probe.result.change_points[k].index :
                        k \in 1..Len(probe.result.change_points)} \cap 0..(i - 1)
    IN IF earlier = {} THEN -1 ELSE CHOOSE c \in earlier : \A d \in earlier : d <= c

\* the running sums at index i, accumulated since the previous change point
RunningSince(i) ==
    LET first == PreviousChangePoint(i) + 1
        sums == {SumSince(first, m) : m \in first..i} \cup {0}
    IN [cumulative_sum |-> SumSince(first, i),
        min_cumulative |-> CHOOSE s \in sums : \A t \in sums : s <= t,
        max_cumulative |-> CHOOSE s \in sums : \A t \in sums : s >= t]

UpwardAt(i) ==
    RunningSince(i).cumulative_sum - RunningSince(i).min_cumulative
        > probe.lambda_threshold

DownwardAt(i) ==
    /\ ~UpwardAt(i)
    /\ RunningSince(i).max_cumulative - RunningSince(i).cumulative_sum
        > probe.lambda_threshold

\* the change points of the probed result after position k, counted from the
\* value that follows change point k
LaterChangePoints(k) ==
    LET cps == probe.result.change_points
    IN [m \in 1..(Len(cps) - k) |->
            [cps[k + m] EXCEPT !.index = cps[k + m].index - (cps[k].index + 1)]]

\* C25: page_hinkley_test emits a change point at index i exactly when the
\* sums accumulated since the previous change point give
\* cumsum - running_min > lambda (upward) or, failing that,
\* running_max - cumsum > lambda (downward); right after every change point
\* the running cumsum, minimum and maximum are 0, and the later change points
\* are those of the values after it alone.
ChangePointsRestartTheSums ==
    (probe.fn = "page_hinkley_test" /\ probe.called)
    => LET cps == probe.result.change_points
           data_stream == probe.data_stream
       IN /\ \A i \in 0..(Len(data_stream) - 1) :
                /\ (\E k \in 1..Len(cps) : cps[k].index = i /\ cps[k].type = "upward_shift")
                        <=> UpwardAt(i)
                /\ (\E k \in 1..Len(cps) : cps[k].index = i /\ cps[k].type = "downward_shift")
                        <=> DownwardAt(i)
          /\ \A k \in 1..Len(cps) :
                /\ k > 1 => cps[k - 1].index < cps[k].index
                /\ page_hinkley_loop(data_stream, cps[k].index + 1, default_delta,
                                     probe.lambda_threshold).running = NoChange
                /\ page_hinkley_test(
                        SubSeq(data_stream, cps[k].index + 2, Len(data_stream)),
                        default_delta, probe.lambda_threshold).change_points
                    = LaterChangePoints(k)

\* a series with an upward change point followed by a downward one
TwoChangePointsEmitted ==
    /\ probe.fn = "page_hinkley_test"
    /\ probe.called
    /\ Len(probe.result.change_points) >= 2
    /\ probe.result.change_points[1].type = "upward_shift"
    /\ probe.result.change_points[2].type = "downward_shift"

----------------------------------------------------------------------------
\* unset, or a list of two numbers in the order [lat, lon]
IsLocationPair(value) ==
    \/ value = VNone
    \/ value.t = "list" /\ Len(value.v) = 2

\* C26: the value of the ubicacion_hogar anchor, in the anchors of every call
\* and in the contextual_anchors table, is unset or a two-element [lat, lon]
\* pair.
HomeLocationStaysAPair ==
    /\ \A i \in Tasks : "ubicacion_hogar" \in DOMAIN task[i].anchors
            => IsLocationPair(task[i].anchors["ubicacion_hogar"].current_value)
    /\ \A u \in Users : "ubicacion_hogar" \in DOMAIN contextual_anchors[u]
            => IsLocationPair(contextual_anchors[u]["ubicacion_hogar"].anchor_value)

----------------------------------------------------------------------------
\* C27: the detector, analyzer, hasher and default anchor configuration exist
\* from construction on, so that no process_user_interaction call fails for
\* want of them, and no close_session call replaces the detector or resets
\* its CUSUM accumulators.
ComponentsSetOnceByConstruction ==
    /\ [](\A i \in Tasks : task[i].pc # "raised")
    /\ [][closes' # closes => drift_detector' = drift_detector]_vars

----------------------------------------------------------------------------
\* C28: once update_value has stored a value, an update_value call with
\* confidence_boost >= 0 is no first write: it never lowers confidence_score,
\* whatever the stored value is.
LaterWritesNeverLowerConfidence ==
    [][(/\ last_op'.name = "update_value"
        /\ anchor.historical_values # <<>>
        /\ \E new_value \in NewValues, confidence_boost \in Boosts :
                /\ confidence_boost >= 0
                /\ anchor' = update_value(anchor, new_value, confidence_boost))
       => anchor'.confidence_score >= anchor.confidence_score]_vars

----------------------------------------------------------------------------
\* how often each decision occurs among these interactions
DecisionCounts(interactions) ==
    [d \in {"ahorro", "equilibrio", "conveniencia"} |->
        Cardinality({k \in 1..Len(interactions) : interactions[k].decision_tomada = d})]

\* C29: a call that has loaded its profile (newest interaction first) scores
\* the interaction against the most recent history: the decisions given to
\* the CUSUM test are those of the 10 most recently logged interactions, the
\* behaviour metrics use the 5 most recent, and the interaction being scored
\* is not among the loaded ones.
HistoryScoredIsMostRecent ==
    \A i \in Tasks : task[i].pc = "loaded" =>
        LET loaded == task[i].recent_interactions
            given == recent_decisions_of(loaded)
        IN /\ DecisionCounts([k \in 1..Len(given) |-> [decision_tomada |-> given[k]]])
                = DecisionCounts(FirstN(loaded, 10))
           /\ DecisionCounts(LastN(loaded, 5)) = DecisionCounts(FirstN(loaded, 5))
           /\ Len(loaded) <= Len(user_interactions[task[i].user])

----------------------------------------------------------------------------
\* C30: the update_history entry a drift-triggered update appends to an
\* anchor records the confidence and the value the anchor had immediately
\* before that update.
DriftHistoryRecordsStateBefore ==
    [][\A i \in Tasks :
        (task[i].pc = "loaded" /\ task'[i].pc = "updated"
            /\ task'[i].drift_result.has_drift)
        => \A n \in task'[i].updated :
            LET before == task[i].anchors[n]
                history == task'[i].anchors[n].update_history
            IN /\ Len(history) = Len(before.update_history) + 1
               /\ history[Len(history)].confidence_before = before.confidence
               /\ history[Len(history)].value_before = before.current_value]_vars

====
